---- MODULE Spec2Model ----
(***************************************************************************)
(* A model of the recording SDK: the per-session state machine             *)
(* (RecordingSession with its EndpointManager, WebRTCHandler and           *)
(* MediaPipeline), the connection supervisor (KurentoConnector) and the    *)
(* session coordinator (RecordingManager).                                 *)
(*                                                                         *)
(* A call that awaits the media server is cut at its awaits where other    *)
(* calls and timers can run in between: the supervisor's and the           *)
(* coordinator's calls are; a session's public calls run whole, with every *)
(* server call they make succeeding or failing.                            *)
(*                                                                         *)
(* The specifications share the definitions:                               *)
(*   SpecSession    one session driven by any sequence of public calls;    *)
(*   SpecTiming     the same session under a running clock;                *)
(*   SpecGuards     one session driven by the calls that have a state      *)
(*                  guard, setQuality included;                            *)
(*   SpecSignaling  one session and the ICE candidates of its client;      *)
(*   SpecPipeline   one pipeline called directly by two callers;           *)
(*   SpecBackoff    the supervisor's reconnection delays;                  *)
(*   SpecEndpoints  one EndpointManager called directly by two callers;    *)
(*   SpecShutdown   the coordinator's disconnect() that stops the          *)
(*                  sessions;                                              *)
(*   SpecCancel     stopSession() against the release timers;              *)
(*   SpecNegotiation  one session whose processOffer() and start() are     *)
(*                  cut at their awaits and invoked concurrently;          *)
(*   SpecConnector  the supervisor alone: concurrent connect() and         *)
(*                  disconnect() calls and its retry timer;                *)
(*   SpecRegistry   the coordinator's registry under two concurrent        *)
(*                  callers;                                               *)
(*   SpecOutage     the coordinator preserving pipelines over a            *)
(*                  disconnect: release timers and reconnection;           *)
(*   SpecRetry      the supervisor's retries while the server is           *)
(*                  unreachable, with timers that fire;                    *)
(*   SpecOptions    the normalization of the options of a new session;     *)
(*   SpecQuality    one session and its bitrate bounds, in the options     *)
(*                  and on the ingress element;                            *)
(*   SpecPair       two registered sessions, one driven through its        *)
(*                  lifecycle while the other is created and stopped.      *)
(***************************************************************************)
EXTENDS Integers, FiniteSets, Sequences, TLC

(***************************************************************************)
(* Bounds of the model.                                                    *)
(***************************************************************************)
\* The clock stops after this many ticks.
MaxTicks == 2
\* resume() is not taken once the accumulated paused time would pass this
\* many ticks' worth of milliseconds (the sum is unbounded otherwise).
MaxPausedTicks == 4
\* The supervisor is configured with at most this many reconnect attempts.
MaxReconnectAttempts == 3
\* At most this many timer callbacks of one session id are suspended at
\* session.release() at a time.
MaxReleasing == 1
\* At most this many release timers of one session id are pending outside
\* the coordinator's map.
MaxStrayTimers == 1
\* The base and the maximum reconnection delay are configured up to these.
MaxBaseDelay == 3
MaxMaxDelay == 8
\* Math.random() is drawn from the multiples of 1/RandomSteps in [0, 1).
RandomSteps == 4
\* A pipeline's registry holds at most this many named elements.
MaxElements == 2
\* A session is passed at most this many ICE candidates.
MaxCandidates == 2
\* createEndpoints is not taken once this many connections were made.
MaxConnections == 2

(***************************************************************************)
(* Program constants.                                                      *)
(***************************************************************************)
\* createRecordingResult divides milliseconds by 1000.
MsPerSecond == 1000
\* One tick of the model's clock, in milliseconds: half a second, the
\* resolution at which Math.round(ms / 1000) changes.
MsPerTick == 500
\* Date.now() at construction: a positive epoch time.
EpochStart == 1000

\* DEFAULT_MANAGER_CONFIG.reconnectAttempts
DefaultReconnectAttempts == 5
\* DEFAULT_MANAGER_CONFIG.maxReconnectionTimeMs
DefaultMaxReconnectionTimeMs == 30000

Null == "null"

\* RecordingState (types/Events)
CREATED == "created"
READY == "ready"
RECORDING == "recording"
PAUSED == "paused"
STOPPED == "stopped"
ERROR == "error"
RecordingStates == {CREATED, READY, RECORDING, PAUSED, STOPPED, ERROR}

\* PauseType
BOTH == "both"
VIDEO_ONLY == "video-only"
AUDIO_ONLY == "audio-only"
PauseTypes == {BOTH, VIDEO_ONLY, AUDIO_ONLY}

\* RecordingMode
AUDIO_VIDEO == "audio-video"
MODE_AUDIO_ONLY == "mode-audio-only"
MODE_VIDEO_ONLY == "mode-video-only"
RecordingModes == {AUDIO_VIDEO, MODE_AUDIO_ONLY, MODE_VIDEO_ONLY}

SessionIds == {"a", "b"}

\* The reconnect attempts the coordinator is configured with.
ManagerReconnectAttempts == {1}

\* The application's concurrent callers of the supervisor and the coordinator.
Callers == {"c1", "c2"}

VARIABLES
    now,        \* Date.now(), in milliseconds
    sess,       \* the RecordingSession objects, by session id
    cfg,        \* the normalized RecordingManagerConfig / connection options
    conn,       \* the KurentoConnector
    mgr,        \* the RecordingManager
    calls,      \* each caller's call in progress, or its latest call
    events      \* the notifications emitted

vars == <<now, sess, cfg, conn, mgr, calls, events>>

\* What the calls on a session leave alone.
coordVars == <<cfg, conn, mgr, calls>>

(***************************************************************************)
(* Math.round(ms / d): JavaScript rounds half up, floor(x + 0.5).          *)
(***************************************************************************)
MathRoundDiv(ms, d) == (2 * ms + d) \div (2 * d)

(***************************************************************************)
(* A RecordingSession as its constructor leaves it, over a pipeline that   *)
(* createSession has initialized.  em_* are the EndpointManager's fields,  *)
(* wh_* the WebRTCHandler's, pl_* the MediaPipeline's.  An element handle  *)
(* is TRUE when the field holds an element and FALSE when it is null.      *)
(* lastOp/lastArg/outcome record the latest public call, the pause type   *)
(* it was given (Null when none) and how it ended; resultDuration is the   *)
(* duration of the result stop() returned.  srv_* is the state the         *)
(* session's server calls have left on the media server: whether the       *)
(* server has completed the offer/answer negotiation of the ingress        *)
(* element the WebRTCHandler holds (srv_negotiated), and how many ingress  *)
(* and recording elements the session has created ("none", "one" or        *)
(* "many"), whether the ingress element's video and the blank-screen       *)
(* substitute are connected to the recording element's video input         *)
(* (srv_ingressVideo, srv_blankVideo: a connection stands from the connect *)
(* call that succeeded to the disconnect or release call that succeeds),   *)
(* and how many substitute elements the session has created and not        *)
(* released (srv_blankElements).  opt_bitrate and opt_frameRate are the    *)
(* quality options: "default", or "custom" once setQuality has set them.   *)
(* clk_pausedMs is the time the session has spent in PAUSED since its      *)
(* latest start(), by the clock.                                           *)
(***************************************************************************)
\* One more element created on the server.
OneMore(n) == IF n = "none" THEN "one" ELSE "many"

NewSession(mode, blank) ==
    [ state |-> CREATED,
      startTime |-> 0,
      stopTime |-> 0,
      pauseStartTime |-> 0,
      totalPausedTime |-> 0,
      blankScreenElement |-> FALSE,
      pauseType |-> BOTH,
      isAudioPaused |-> FALSE,
      isVideoPaused |-> FALSE,
      insertBlankScreenOnPause |-> blank,
      recordingMode |-> mode,
      endpointManager |-> FALSE,
      em_webRtcEndpoint |-> FALSE,
      em_recorderEndpoint |-> FALSE,
      em_recordingMode |-> Null,
      em_isRecording |-> FALSE,
      em_blankScreenElement |-> FALSE,
      wh_webRtcEndpoint |-> FALSE,
      wh_pendingCandidates |-> <<>>,
      wh_applying |-> <<>>,
      ice_passed |-> 0,
      ice_buffered |-> <<>>,
      srv_iceForwarded |-> <<>>,
      pl_pipeline |-> TRUE,
      pl_isReleased |-> FALSE,
      srv_negotiated |-> FALSE,
      srv_webRtcCreated |-> "none",
      srv_recorderCreated |-> "none",
      srv_ingressVideo |-> FALSE,
      srv_blankVideo |-> FALSE,
      srv_blankElements |-> 0,
      opt_bitrate |-> "default",
      opt_frameRate |-> "default",
      lastOp |-> "new",
      lastArg |-> Null,
      outcome |-> "ok",
      resultDuration |-> Null,
      clk_pausedMs |-> 0 ]

\* The call `op`, given the pause type `arg`, ended with `outcome` and left
\* the session as r.
DoneArg(r, op, arg, outcome) ==
    [r EXCEPT !.lastOp = op, !.lastArg = arg, !.outcome = outcome]

Done(r, op, outcome) == DoneArg(r, op, Null, outcome)

\* RecordingSession.setState
SetState(r, st) == [r EXCEPT !.state = st]

\* MediaPipeline.ensurePipeline: TRUE when it does not throw.
EnsurePipeline(r) == r.pl_pipeline /\ ~r.pl_isReleased

(***************************************************************************)
(* RecordingSession.initialize: no state guard; a fresh EndpointManager    *)
(* replaces the old one and the state is set to READY.                     *)
(***************************************************************************)
InitializeRec(r) ==
    SetState([r EXCEPT !.endpointManager = TRUE,
                       !.em_webRtcEndpoint = FALSE,
                       !.em_recorderEndpoint = FALSE,
                       !.em_recordingMode = Null,
                       !.em_isRecording = FALSE,
                       !.em_blankScreenElement = FALSE], READY)

(***************************************************************************)
(* EndpointManager.createEndpoints.  f names the server call that fails:   *)
(* 0 none, 1 create ingress, 2 create recorder, 3 connect.  A pipeline     *)
(* that is missing or released fails the first creation with no call.  A   *)
(* new recording element has no input until connectEndpoints connects the  *)
(* ingress element to it, with its video in the modes that record video.   *)
(***************************************************************************)
CreateEndpointsFail(r, f) == IF EnsurePipeline(r) THEN f ELSE 1

\* The recording modes in which the ingress video feeds the recorder.
RecordsVideo(mode) == mode \in {AUDIO_VIDEO, MODE_VIDEO_ONLY}

\* A mode string that is none of the three recording modes.
UnrecognizedMode == "unrecognized"

\* connectEndpoints as it would be if it passed no media type in any mode.
ConnectionScopeUntyped(mode) == {"AUDIO", "VIDEO"}

\* The media connectEndpoints connects from the ingress element to the
\* recorder: pipeline.connect with 'AUDIO', with 'VIDEO', or with no type
\* (both) for audio-video and in the default branch of the switch.
ConnectionScope(mode) ==
    IF mode = MODE_AUDIO_ONLY THEN {"AUDIO"}
    ELSE IF mode = MODE_VIDEO_ONLY THEN {"VIDEO"}
    ELSE {"AUDIO", "VIDEO"}

CreateEndpointsRec(r, f) ==
    LET ff == CreateEndpointsFail(r, f) IN
    [r EXCEPT !.em_recordingMode = r.recordingMode,
              !.em_webRtcEndpoint = IF ff = 1 THEN @ ELSE TRUE,
              !.em_recorderEndpoint = IF ff \in {1, 2} THEN @ ELSE TRUE,
              !.srv_webRtcCreated = IF ff = 1 THEN @ ELSE OneMore(@),
              !.srv_recorderCreated = IF ff \in {1, 2} THEN @ ELSE OneMore(@),
              !.srv_ingressVideo =
                  IF ff \in {1, 2} THEN @
                  ELSE ff # 3 /\ "VIDEO" \in ConnectionScope(r.recordingMode),
              !.srv_blankVideo = IF ff \in {1, 2} THEN @ ELSE FALSE]

(***************************************************************************)
(* The WebRTCHandler's ICE candidates.  The candidates passed to a session *)
(* are numbered 1, 2, ... in the order received (ice_passed counts them,   *)
(* ice_buffered lists the ones that were buffered).  wh_applying holds the *)
(* candidates applyPendingCandidates has yet to see through: its head has  *)
(* been forwarded and is awaited, the others wait their turn.              *)
(* srv_iceForwarded lists the addIceCandidate calls made on the ingress    *)
(* element, in order.                                                      *)
(***************************************************************************)
\* WebRTCHandler.setEndpoint: the buffer is copied and emptied, and the loop
\* of applyPendingCandidates runs up to its first await.
SetEndpoint(r) ==
    LET r1 == [r EXCEPT !.wh_webRtcEndpoint = TRUE] IN
    IF r.wh_pendingCandidates = <<>> THEN r1
    ELSE [r1 EXCEPT !.wh_applying = r.wh_pendingCandidates,
                    !.wh_pendingCandidates = <<>>,
                    !.srv_iceForwarded =
                        Append(@, Head(r.wh_pendingCandidates))]

\* The loop as it would be if a failed candidate ended it.
ApplyNextAborting(r, ok) ==
    IF ok /\ Tail(r.wh_applying) # <<>>
    THEN [r EXCEPT !.wh_applying = Tail(@),
                   !.srv_iceForwarded = Append(@, r.wh_applying[2])]
    ELSE [r EXCEPT !.wh_applying = <<>>]

\* applyPendingCandidates resumes after the awaited candidate was applied
\* (ok) or refused: the loop goes on to the next candidate either way.
ApplyNext(r, ok) ==
    IF Tail(r.wh_applying) # <<>>
    THEN [r EXCEPT !.wh_applying = Tail(@),
                   !.srv_iceForwarded = Append(@, r.wh_applying[2])]
    ELSE [r EXCEPT !.wh_applying = <<>>]

\* addIceCandidate as it would be if the session rethrew the handler's error.
AddIceCandidateRecRethrows(r, ok) ==
    LET id == r.ice_passed + 1 IN
    IF ~r.wh_webRtcEndpoint
    THEN Done([r EXCEPT !.ice_passed = id,
                        !.wh_pendingCandidates = Append(@, id),
                        !.ice_buffered = Append(@, id)],
              "addIceCandidate", "ok")
    ELSE Done([r EXCEPT !.ice_passed = id,
                        !.srv_iceForwarded = Append(@, id)],
              "addIceCandidate", IF ok THEN "ok" ELSE "failed")

\* RecordingSession.addIceCandidate over WebRTCHandler.addIceCandidate: the
\* candidate is buffered without an ingress element, else forwarded; ok is
\* the outcome of forwarding, whose failure the handler throws and the
\* session catches.
AddIceCandidateRec(r, ok) ==
    LET id == r.ice_passed + 1 IN
    IF ~r.wh_webRtcEndpoint
    THEN Done([r EXCEPT !.ice_passed = id,
                        !.wh_pendingCandidates = Append(@, id),
                        !.ice_buffered = Append(@, id)],
              "addIceCandidate", "ok")
    ELSE Done([r EXCEPT !.ice_passed = id,
                        !.srv_iceForwarded = Append(@, id)],
              "addIceCandidate", "ok")

(***************************************************************************)
(* RecordingSession.processOffer.  f names the failing server call: 0      *)
(* none, 1..3 inside createEndpoints, 4 process-offer, 5 gather            *)
(* candidates, 6 set bandwidth.  Any failure sets ERROR and is rethrown.   *)
(* setEndpoint hands the WebRTCHandler the new ingress element, which the  *)
(* server has negotiated once call 4 has succeeded.                        *)
(***************************************************************************)
ProcessOfferRec(r, f) ==
    IF r.state # READY THEN Done(r, "processOffer", "invalid_state")
    ELSE IF ~r.endpointManager
    THEN Done(SetState(r, ERROR), "processOffer", "failed")
    ELSE LET ff == IF f \in 1..3 THEN CreateEndpointsFail(r, f)
                   ELSE IF CreateEndpointsFail(r, 0) # 0 THEN 1 ELSE f
             r1 == CreateEndpointsRec(r, ff)
         IN  IF ff \in 1..3
             THEN Done(SetState(r1, ERROR), "processOffer", "failed")
             ELSE LET r2 == [SetEndpoint(r1) EXCEPT
                                 !.srv_negotiated = (ff # 4)] IN
                  IF ff # 0
                  THEN Done(SetState(r2, ERROR), "processOffer", "failed")
                  ELSE Done(r2, "processOffer", "ok")

(***************************************************************************)
(* RecordingSession.start over EndpointManager.startRecording; ok is the   *)
(* outcome of the recorder's record() call, t is Date.now().               *)
(***************************************************************************)
StartRec(r, ok, t) ==
    IF r.state # READY THEN Done(r, "start", "invalid_state")
    ELSE IF ~r.endpointManager \/ ~r.wh_webRtcEndpoint
    THEN Done(r, "start", "not_ready")
    ELSE IF ~r.em_recorderEndpoint
    THEN Done(SetState(r, ERROR), "start", "failed")
    ELSE IF ~r.em_isRecording /\ ~ok
    THEN Done(SetState(r, ERROR), "start", "failed")
    ELSE Done(SetState([r EXCEPT !.em_isRecording = TRUE,
                                 !.startTime = t,
                                 !.clk_pausedMs = 0], RECORDING),
              "start", "ok")

(***************************************************************************)
(* EndpointManager.connectBlankScreen, its throw caught by the caller.     *)
(* okDisconnect is the outcome of disconnecting the ingress video from the *)
(* recorder (a failure is logged and the call goes on), okConnectBlank of  *)
(* connecting the substitute to the recorder.                              *)
(***************************************************************************)
ConnectBlankScreen(r, okDisconnect, okConnectBlank) ==
    IF ~r.em_recorderEndpoint THEN r
    ELSE LET r1 == [r EXCEPT !.em_blankScreenElement = TRUE]
             r2 == IF /\ r1.em_webRtcEndpoint
                      /\ RecordsVideo(r1.em_recordingMode)
                      /\ okDisconnect
                   THEN [r1 EXCEPT !.srv_ingressVideo = FALSE]
                   ELSE r1
         IN  IF EnsurePipeline(r2) /\ okConnectBlank
             THEN [r2 EXCEPT !.srv_blankVideo = TRUE]
             ELSE r2

(***************************************************************************)
(* RecordingSession.insertPauseBlankScreen: never throws.  okCreate is the *)
(* outcome of creating the substitute element on the server.  The element  *)
(* is kept by the session whether or not connecting it succeeds.           *)
(***************************************************************************)
InsertPauseBlankScreen(r, okCreate, okDisconnect, okConnectBlank) ==
    IF ~r.endpointManager \/ ~r.insertBlankScreenOnPause THEN r
    ELSE IF ~r.pl_pipeline \/ ~okCreate THEN r
    ELSE ConnectBlankScreen([r EXCEPT !.blankScreenElement = TRUE,
                                      !.srv_blankElements = @ + 1],
                            okDisconnect, okConnectBlank)

(***************************************************************************)
(* RecordingSession.removePauseBlankScreen: never throws.  okDisconnect is *)
(* the outcome of disconnecting the substitute from the recorder (a        *)
(* failure is logged and the call goes on), okConnect of reconnecting the  *)
(* ingress video, okRelease of releasing the substitute.  The element is   *)
(* forgotten only when every step before the assignment succeeded.         *)
(***************************************************************************)
\* EndpointManager.disconnectBlankScreen: TRUE when it does not throw.
DisconnectBlankScreenOk(r, okConnect) ==
    /\ r.em_recorderEndpoint /\ r.em_webRtcEndpoint
    /\ \/ r.em_recordingMode \notin {AUDIO_VIDEO, MODE_VIDEO_ONLY}
       \/ EnsurePipeline(r) /\ okConnect

\* EndpointManager.disconnectBlankScreen: what it leaves on the server.
DisconnectBlankScreen(r, okDisconnect, okConnect) ==
    IF ~(r.em_recorderEndpoint /\ r.em_webRtcEndpoint) THEN r
    ELSE LET r1 == IF r.em_blankScreenElement /\ okDisconnect
                   THEN [r EXCEPT !.srv_blankVideo = FALSE]
                   ELSE r
         IN  IF /\ RecordsVideo(r1.em_recordingMode)
                /\ EnsurePipeline(r1) /\ okConnect
             THEN [r1 EXCEPT !.srv_ingressVideo = TRUE]
             ELSE r1

RemovePauseBlankScreen(r, okDisconnect, okConnect, okRelease) ==
    IF ~r.blankScreenElement THEN r
    ELSE LET r1 == IF r.endpointManager
                   THEN DisconnectBlankScreen(r, okDisconnect, okConnect)
                   ELSE r
         IN  IF r.endpointManager /\ ~DisconnectBlankScreenOk(r, okConnect)
             THEN r1
             ELSE IF ~okRelease THEN r1
             ELSE [r1 EXCEPT !.blankScreenElement = FALSE,
                             !.srv_blankElements = @ - 1,
                             !.srv_blankVideo = FALSE]

(***************************************************************************)
(* RecordingSession.pause.  kind is the pause type (BOTH by default), t is *)
(* Date.now().  Nothing inside the try block can throw.                    *)
(***************************************************************************)
PauseRecAlwaysInserts(r, kind, okCreate, okDisconnect, okConnectBlank, t) ==
    IF r.state # RECORDING THEN DoneArg(r, "pause", kind, "invalid_state")
    ELSE LET r1 == [r EXCEPT !.pauseStartTime = t,
                             !.pauseType = kind,
                             !.isAudioPaused =
                                 IF kind \in {BOTH, AUDIO_ONLY} THEN TRUE ELSE @,
                             !.isVideoPaused =
                                 IF kind \in {BOTH, VIDEO_ONLY} THEN TRUE ELSE @]
             r2 == IF kind \in {BOTH, VIDEO_ONLY}
                      /\ r1.insertBlankScreenOnPause
                   THEN InsertPauseBlankScreen(r1, okCreate, okDisconnect,
                                               okConnectBlank)
                   ELSE r1
         IN  DoneArg(SetState(r2, PAUSED), "pause", kind, "ok")

PauseRec(r, kind, okCreate, okDisconnect, okConnectBlank, t) ==
    IF r.state # RECORDING THEN DoneArg(r, "pause", kind, "invalid_state")
    ELSE LET r1 == [r EXCEPT !.pauseStartTime = t,
                             !.pauseType = kind,
                             !.isAudioPaused =
                                 IF kind \in {BOTH, AUDIO_ONLY} THEN TRUE ELSE @,
                             !.isVideoPaused =
                                 IF kind \in {BOTH, VIDEO_ONLY} THEN TRUE ELSE @]
             r2 == IF kind \in {BOTH, VIDEO_ONLY}
                      /\ r1.insertBlankScreenOnPause /\ ~r1.blankScreenElement
                   THEN InsertPauseBlankScreen(r1, okCreate, okDisconnect,
                                               okConnectBlank)
                   ELSE r1
         IN  DoneArg(SetState(r2, PAUSED), "pause", kind, "ok")

(***************************************************************************)
(* RecordingSession.resume.  kind is the argument, Null when it is left    *)
(* out; t is Date.now().  The pause duration is added on every call.       *)
(***************************************************************************)
ActualResumeType(r, kind) == IF kind = Null THEN r.pauseType ELSE kind

\* resume() as it would be if it went back to RECORDING whatever remains
\* muted.
ResumeRecAlwaysRecording(r, kind, okDisconnect, okConnect, okRelease, t) ==
    IF r.state # PAUSED THEN DoneArg(r, "resume", kind, "invalid_state")
    ELSE LET actual == ActualResumeType(r, kind)
             r1 == [r EXCEPT !.totalPausedTime = @ + (t - r.pauseStartTime),
                             !.isAudioPaused =
                                 IF actual \in {BOTH, AUDIO_ONLY}
                                 THEN FALSE ELSE @,
                             !.isVideoPaused =
                                 IF actual \in {BOTH, VIDEO_ONLY}
                                 THEN FALSE ELSE @]
         IN  DoneArg(SetState(r1, RECORDING), "resume", kind, "ok")

ResumeRec(r, kind, okDisconnect, okConnect, okRelease, t) ==
    IF r.state # PAUSED THEN DoneArg(r, "resume", kind, "invalid_state")
    ELSE LET actual == ActualResumeType(r, kind)
             pauseDuration == t - r.pauseStartTime
             r1 == [r EXCEPT !.totalPausedTime = @ + pauseDuration]
             applies == \/ actual = BOTH
                        \/ actual = AUDIO_ONLY /\ r1.isAudioPaused
                        \/ actual = VIDEO_ONLY /\ r1.isVideoPaused
             r2 == IF ~applies THEN r1
                   ELSE [r1 EXCEPT !.isAudioPaused =
                                       IF actual \in {BOTH, AUDIO_ONLY}
                                       THEN FALSE ELSE @,
                                   !.isVideoPaused =
                                       IF actual \in {BOTH, VIDEO_ONLY}
                                       THEN FALSE ELSE @]
             r3 == IF applies /\ actual \in {BOTH, VIDEO_ONLY}
                      /\ r2.blankScreenElement
                   THEN RemovePauseBlankScreen(r2, okDisconnect, okConnect,
                                               okRelease)
                   ELSE r2
             r4 == IF ~r3.isAudioPaused /\ ~r3.isVideoPaused
                   THEN SetState(r3, RECORDING)
                   ELSE r3
         IN  DoneArg(r4, "resume", kind, "ok")

(***************************************************************************)
(* RecordingSession.createRecordingResult: the duration, in seconds.       *)
(***************************************************************************)
ResultDuration(r) ==
    IF r.startTime > 0 /\ r.stopTime > 0
    THEN LET totalElapsedMs == r.stopTime - r.startTime IN
         IF ~r.insertBlankScreenOnPause
         THEN MathRoundDiv(totalElapsedMs - r.totalPausedTime, MsPerSecond)
         ELSE MathRoundDiv(totalElapsedMs, MsPerSecond)
    ELSE 0

(***************************************************************************)
(* RecordingSession.stop over EndpointManager.stopRecording.  okStop is    *)
(* the outcome of the recorder's stop() call, t is Date.now().             *)
(***************************************************************************)
StopRec(r, okDisconnect, okConnect, okRelease, okStop, t) ==
    IF r.state \notin {RECORDING, PAUSED, ERROR}
    THEN Done(r, "stop", "invalid_state")
    ELSE LET r1 == IF r.state = PAUSED /\ r.blankScreenElement
                   THEN RemovePauseBlankScreen(r, okDisconnect, okConnect,
                                               okRelease)
                   ELSE r
             threw == r1.endpointManager
                      /\ \/ ~r1.em_recorderEndpoint
                         \/ r1.em_isRecording /\ ~okStop
             r2 == IF r1.endpointManager /\ r1.em_isRecording /\ ~threw
                   THEN [r1 EXCEPT !.em_isRecording = FALSE]
                   ELSE r1
         IN  IF threw
             THEN Done(SetState(r2, ERROR), "stop", "failed")
             ELSE LET r3 == SetState([r2 EXCEPT !.stopTime = t], STOPPED) IN
                  Done([r3 EXCEPT !.resultDuration = ResultDuration(r3)],
                       "stop", "ok")

(***************************************************************************)
(* RecordingSession.setQuality.  bitrate is TRUE when the parameters carry *)
(* a bitrate, frameRate when they carry a frame rate; ok is the outcome of *)
(* setting the bandwidth on the ingress element.                           *)
(***************************************************************************)
SetQualityRecUnguarded(r, bitrate, frameRate, ok) ==
    IF bitrate /\ (~r.wh_webRtcEndpoint \/ ~ok)
    THEN Done(r, "setQuality", "failed")
    ELSE Done([r EXCEPT !.opt_bitrate = IF bitrate THEN "custom" ELSE @,
                        !.opt_frameRate = IF frameRate THEN "custom" ELSE @],
              "setQuality", "ok")

SetQualityRec(r, bitrate, frameRate, ok) ==
    IF r.state \notin {RECORDING, PAUSED}
    THEN Done(r, "setQuality", "invalid_state")
    ELSE IF bitrate /\ (~r.wh_webRtcEndpoint \/ ~ok)
    THEN Done(r, "setQuality", "failed")
    ELSE Done([r EXCEPT !.opt_bitrate = IF bitrate THEN "custom" ELSE @,
                        !.opt_frameRate = IF frameRate THEN "custom" ELSE @],
              "setQuality", "ok")

(***************************************************************************)
(* EndpointManager.releaseEndpoints: every failure is logged, none thrown. *)
(***************************************************************************)
\* releaseEndpoints as it would be if a failed release of the recorder ended
\* it.
ReleaseEndpointsAborting(r, okStop, okRecorder, okWebRtc) ==
    LET r1 == IF r.em_isRecording /\ r.em_recorderEndpoint /\ okStop
              THEN [r EXCEPT !.em_isRecording = FALSE] ELSE r
    IN  IF r1.em_recorderEndpoint /\ ~okRecorder THEN r1
        ELSE [r1 EXCEPT !.em_recorderEndpoint = FALSE,
                        !.em_webRtcEndpoint = IF okWebRtc THEN FALSE ELSE @,
                        !.srv_ingressVideo = FALSE,
                        !.srv_blankVideo = FALSE]

ReleaseEndpoints(r, okStop, okRecorder, okWebRtc) ==
    LET r1 == IF r.em_isRecording /\ r.em_recorderEndpoint /\ okStop
              THEN [r EXCEPT !.em_isRecording = FALSE] ELSE r
        r2 == IF r1.em_recorderEndpoint /\ okRecorder
              THEN [r1 EXCEPT !.em_recorderEndpoint = FALSE,
                              !.srv_ingressVideo = FALSE,
                              !.srv_blankVideo = FALSE]
              ELSE r1
    IN  IF r2.em_webRtcEndpoint /\ okWebRtc
        THEN [r2 EXCEPT !.em_webRtcEndpoint = FALSE,
                        !.srv_ingressVideo = FALSE]
        ELSE r2

(***************************************************************************)
(* MediaPipeline.release: TRUE when the call throws.                       *)
(***************************************************************************)
PipelineReleaseThrows(r, okPipeline) ==
    ~(r.pl_isReleased \/ ~r.pl_pipeline) /\ ~okPipeline

PipelineRelease(r, okPipeline) ==
    IF r.pl_isReleased \/ ~r.pl_pipeline \/ ~okPipeline THEN r
    ELSE [r EXCEPT !.pl_pipeline = FALSE, !.pl_isReleased = TRUE,
                   !.srv_ingressVideo = FALSE,
                   !.srv_blankVideo = FALSE,
                   !.srv_blankElements = 0]

(***************************************************************************)
(* RecordingSession.release: the blank screen, the endpoints, then the     *)
(* pipeline; only a failed pipeline release is thrown.                     *)
(***************************************************************************)
ReleaseThrows(r, okPipeline) == PipelineReleaseThrows(r, okPipeline)

ReleaseRec(r, okBlank, okStop, okRecorder, okWebRtc, okPipeline) ==
    LET r1 == IF r.blankScreenElement /\ okBlank
              THEN [r EXCEPT !.blankScreenElement = FALSE,
                             !.srv_blankElements = IF @ > 0 THEN @ - 1 ELSE @,
                             !.srv_blankVideo = FALSE]
              ELSE r
        r2 == IF r1.endpointManager
              THEN ReleaseEndpoints(r1, okStop, okRecorder, okWebRtc) ELSE r1
        r3 == PipelineRelease(r2, okPipeline)
    IN  Done(r3, "release",
             IF ReleaseThrows(r2, okPipeline) THEN "failed" ELSE "ok")

(***************************************************************************)
(* The notifications: the reconnect_max_attempts emitted since a caller    *)
(* last invoked connect() (maxAttempts), the session ids for which the     *)
(* latest step emitted reconnection-timed-out (timedOut), the sessionCount *)
(* of the pipeline-preserved the latest step emitted, 0 when it emitted    *)
(* none (preserved), whether the latest step emitted the supervisor's      *)
(* 'disconnected' (disconnected), and whether sessions.set has replaced a  *)
(* registered session (overwritten).                                       *)
(***************************************************************************)
NoEvents ==
    [ maxAttempts |-> 0,
      timedOut |-> {},
      preserved |-> 0,
      disconnected |-> FALSE,
      overwritten |-> FALSE ]

\* A step that emits none of reconnection-timed-out, pipeline-preserved and
\* the supervisor's 'disconnected'.
Quiet(e) == [e EXCEPT !.timedOut = {}, !.preserved = 0, !.disconnected = FALSE]

(***************************************************************************)
(* The public calls of one session as actions: each runs the whole call,   *)
(* with every server call it makes succeeding or failing.                  *)
(***************************************************************************)
\* The sessions as they would be if they shared one state.
SetSessionShared(s, r) == sess' = [t \in DOMAIN sess |-> r]

SetSession(s, r) == sess' = [sess EXCEPT ![s] = r]

\* The outcomes of a server call: success or failure when the call is made,
\* nothing to choose when it is not.
Outcomes(made) == IF made THEN BOOLEAN ELSE {TRUE}

Initialize(s) ==
    /\ SetSession(s, Done(InitializeRec(sess[s]), "initialize", "ok"))
    /\ events' = Quiet(events)
    /\ UNCHANGED <<now, coordVars>>

ProcessOffer(s) ==
    /\ \E f \in IF sess[s].state = READY THEN 0..6 ELSE {0} :
           SetSession(s, ProcessOfferRec(sess[s], f))
    /\ events' = Quiet(events)
    /\ UNCHANGED <<now, coordVars>>

Start(s) ==
    /\ \E ok \in Outcomes(sess[s].state = READY /\ ~sess[s].em_isRecording) :
           SetSession(s, StartRec(sess[s], ok, now))
    /\ events' = Quiet(events)
    /\ UNCHANGED <<now, coordVars>>

\* TRUE when a pause() of video creates the substitute element.
InsertsBlankScreen(r) ==
    /\ r.state = RECORDING
    /\ r.insertBlankScreenOnPause /\ ~r.blankScreenElement
    /\ r.endpointManager /\ r.pl_pipeline

\* TRUE when a resume() or stop() removes the substitute element.
RemovesBlankScreen(r) == r.state = PAUSED /\ r.blankScreenElement

Pause(s) ==
    /\ \E kind \in PauseTypes,
          okCreate \in Outcomes(InsertsBlankScreen(sess[s])),
          okDisconnect, okConnectBlank \in
              Outcomes(InsertsBlankScreen(sess[s])
                       /\ sess[s].em_recorderEndpoint) :
           SetSession(s, PauseRec(sess[s], kind, okCreate, okDisconnect,
                                  okConnectBlank, now))
    /\ events' = Quiet(events)
    /\ UNCHANGED <<now, coordVars>>

Resume(s) ==
    /\ sess[s].state = PAUSED =>
           sess[s].totalPausedTime + (now - sess[s].pauseStartTime)
               <= MaxPausedTicks * MsPerTick
    /\ \E kind \in PauseTypes \cup {Null},
          okDisconnect, okConnect, okRelease \in
              Outcomes(RemovesBlankScreen(sess[s])) :
           SetSession(s, ResumeRec(sess[s], kind, okDisconnect, okConnect,
                                   okRelease, now))
    /\ events' = Quiet(events)
    /\ UNCHANGED <<now, coordVars>>

Stop(s) ==
    /\ \E okDisconnect, okConnect, okRelease \in
              Outcomes(RemovesBlankScreen(sess[s])),
          okStop \in Outcomes(/\ sess[s].state \in {RECORDING, PAUSED, ERROR}
                              /\ sess[s].em_isRecording) :
           SetSession(s, StopRec(sess[s], okDisconnect, okConnect, okRelease,
                                 okStop, now))
    /\ events' = Quiet(events)
    /\ UNCHANGED <<now, coordVars>>

Release(s) ==
    /\ \E okBlank \in Outcomes(sess[s].blankScreenElement),
          okStop \in Outcomes(sess[s].em_isRecording),
          okRecorder \in Outcomes(sess[s].em_recorderEndpoint),
          okWebRtc \in Outcomes(sess[s].em_webRtcEndpoint),
          okPipeline \in Outcomes(EnsurePipeline(sess[s])) :
           SetSession(s, ReleaseRec(sess[s], okBlank, okStop, okRecorder,
                                    okWebRtc, okPipeline))
    /\ events' = Quiet(events)
    /\ UNCHANGED <<now, coordVars>>

SetQuality(s) ==
    /\ \E bitrate, frameRate \in BOOLEAN,
          ok \in Outcomes(/\ sess[s].state \in {RECORDING, PAUSED}
                          /\ sess[s].wh_webRtcEndpoint) :
           SetSession(s, SetQualityRec(sess[s], bitrate, frameRate, ok))
    /\ events' = Quiet(events)
    /\ UNCHANGED <<now, coordVars>>

\* addIceCandidate(candidate), the next candidate of the client.
AddIceCandidate(s) ==
    /\ sess[s].ice_passed < MaxCandidates
    /\ \E ok \in Outcomes(sess[s].wh_webRtcEndpoint) :
           SetSession(s, AddIceCandidateRec(sess[s], ok))
    /\ events' = Quiet(events)
    /\ UNCHANGED <<now, coordVars>>

\* The server answers the buffered candidate applyPendingCandidates awaits.
ApplyReturn(s) ==
    /\ sess[s].wh_applying # <<>>
    /\ \E ok \in BOOLEAN : SetSession(s, ApplyNext(sess[s], ok))
    /\ events' = Quiet(events)
    /\ UNCHANGED <<now, coordVars>>

\* Time passes: Date.now() never goes back.
Tick ==
    /\ now + MsPerTick <= EpochStart + MaxTicks * MsPerTick
    /\ now' = now + MsPerTick
    /\ sess' = [s \in DOMAIN sess |->
                  IF sess[s].state = PAUSED
                  THEN [sess[s] EXCEPT !.clk_pausedMs = @ + MsPerTick]
                  ELSE sess[s]]
    /\ UNCHANGED <<coordVars, events>>

(***************************************************************************)
(* The configuration.  reconnect and reconnectAttempts are the connection  *)
(* options the supervisor reads; the coordinator reads the other two.      *)
(***************************************************************************)
NewConfig(reconnect, attempts, preserve, maxMs) ==
    [ reconnect |-> reconnect,
      reconnectAttempts |-> attempts,
      preservePipelinesOnDisconnect |-> preserve,
      maxReconnectionTimeMs |-> maxMs ]

(***************************************************************************)
(* A caller's record: the call (op, arg), where it is suspended (pc), how  *)
(* it ended (outcome, Null while it runs) and, for a disconnect that stops *)
(* every session, the sessions whose stop has not completed (pending).     *)
(* notified counts the CONNECTED notifications a coordinator connect(), or *)
(* the DISCONNECTED notifications a coordinator disconnect(), has          *)
(* delivered to the coordinator's listeners.                               *)
(***************************************************************************)
Call(op, arg, pc, outcome, pending) ==
    [op |-> op, arg |-> arg, pc |-> pc, outcome |-> outcome,
     pending |-> pending, notified |-> 0]

\* The call has delivered n notifications to the coordinator's listeners.
Notified(r, n) == [r EXCEPT !.notified = n]

IdleCall == Call("none", Null, "idle", Null, {})

\* The call returned or threw.
Ended(op, arg, outcome) == Call(op, arg, "idle", outcome, {})

\* The call is suspended at an await.
Suspended(op, arg, pc) == Call(op, arg, pc, Null, {})

SetCall(c, r) == calls' = [calls EXCEPT ![c] = r]

(***************************************************************************)
(* KurentoConnector.  client and reconnectTimer are TRUE when the field is *)
(* not null.  retry is the position of the retry timer's callback: "idle", *)
(* or "awaitSingleton" while its connect() awaits the server.              *)
(***************************************************************************)
NewConnector ==
    [ client |-> FALSE,
      isConnecting |-> FALSE,
      reconnectTimer |-> FALSE,
      reconnectAttempts |-> 0,
      retry |-> "idle" ]

\* KurentoConnector.scheduleReconnect: the pending timer, if any, is cleared
\* and a new one is armed.
ScheduleReconnect(k) ==
    [k EXCEPT !.reconnectAttempts = @ + 1, !.reconnectTimer = TRUE]

\* connect() without the connection-in-progress guard.
ConnectEntryUnguarded(k) ==
    IF k.client THEN "existing" ELSE "pending"

\* KurentoConnector.connect up to its await: "existing" when it returns the
\* client it has, "in_progress" when it throws CONNECTION_IN_PROGRESS,
\* "pending" when it contacts the server.
ConnectEntry(k) ==
    IF k.client THEN "existing"
    ELSE IF k.isConnecting THEN "in_progress"
    ELSE "pending"

ConnectBegin(k) ==
    IF ConnectEntry(k) = "pending" THEN [k EXCEPT !.isConnecting = TRUE] ELSE k

\* KurentoConnector.connect after getSingleton resolved.
ConnectResolved(k) ==
    [k EXCEPT !.client = TRUE, !.isConnecting = FALSE, !.reconnectAttempts = 0]

\* KurentoConnector.connect after getSingleton rejected: the catch block.
ConnectRejected(k, o) ==
    LET k1 == [k EXCEPT !.isConnecting = FALSE, !.client = FALSE] IN
    IF o.reconnect /\ k1.reconnectAttempts < o.reconnectAttempts
    THEN ScheduleReconnect(k1)
    ELSE k1

\* The catch block of the retry timer's callback: TRUE when it emits
\* reconnect_max_attempts.
RetryGivesUp(k, o) == ~(k.reconnectAttempts < o.reconnectAttempts)

RetryFailed(k, o) ==
    IF RetryGivesUp(k, o) THEN k ELSE ScheduleReconnect(k)

\* KurentoConnector.disconnect up to its await: the retry timer is cleared.
DisconnectBegin(k) == [k EXCEPT !.reconnectTimer = FALSE]

\* KurentoConnector.disconnect after close() resolved or rejected.
DisconnectEnd(k) == [k EXCEPT !.client = FALSE]

\* The connection attempts in flight: the callers and the retry callback
\* suspended at getSingleton.
AttemptsInFlight ==
    Cardinality({c \in Callers : calls[c].pc = "awaitSingleton"})
        + (IF conn.retry = "awaitSingleton" THEN 1 ELSE 0)

(***************************************************************************)
(* RecordingManager.  kurentoConnector is TRUE once the coordinator has    *)
(* created its supervisor and listens to it.  pipelineReleaseTimers maps a *)
(* session id to "none" (no entry), "pending" (an entry whose timer has    *)
(* not fired) or "fired" (an entry whose timer has fired).  strayTimers    *)
(* counts the pending timers the map no longer holds, releasing the timer  *)
(* callbacks suspended at session.release().                               *)
(***************************************************************************)
NoTimestamp == 0

NewManager ==
    [ kurentoConnector |-> FALSE,
      sessions |-> {},
      isInitialized |-> FALSE,
      disconnectionTimestamp |-> NoTimestamp,
      pipelineReleaseTimers |-> [id \in SessionIds |-> "none"],
      strayTimers |-> [id \in SessionIds |-> 0],
      releasing |-> [id \in SessionIds |-> 0] ]

\* RecordingManager.schedulePipelineRelease as it would be if it armed a
\* timer for no session.
SchedulePipelineReleaseNone(m) == m

\* RecordingManager.schedulePipelineRelease: for every registered session the
\* timer in the map is cleared and a new one is armed.
SchedulePipelineRelease(m) ==
    [m EXCEPT !.pipelineReleaseTimers =
                  [id \in SessionIds |->
                      IF id \in m.sessions THEN "pending" ELSE @[id]]]

\* RecordingManager.clearPipelineReleaseTimers
ClearPipelineReleaseTimers(m) ==
    [m EXCEPT !.pipelineReleaseTimers = [id \in SessionIds |-> "none"]]

\* pipelineReleaseTimers.delete(id): the entry goes, its timer is not cleared.
TimerEntryDeleted(m, id) ==
    [m EXCEPT !.strayTimers[id] =
                  IF m.pipelineReleaseTimers[id] = "pending" THEN @ + 1 ELSE @,
              !.pipelineReleaseTimers[id] = "none"]

\* The coordinator's handler of the supervisor's 'disconnected'.
OnDisconnected(m, o, t) ==
    IF m.kurentoConnector /\ o.preservePipelinesOnDisconnect /\ m.sessions # {}
    THEN SchedulePipelineRelease([m EXCEPT !.disconnectionTimestamp = t])
    ELSE m

\* RecordingManager.connect up to its await: "existing" when it returns at
\* once, else what the supervisor's connect() does.
ManagerConnectEntry(m, k) ==
    IF m.kurentoConnector /\ k.client THEN "existing" ELSE ConnectEntry(k)

\* RecordingManager.connect after the supervisor's connect() resolved.
ManagerConnected(m) ==
    IF m.disconnectionTimestamp # NoTimestamp
    THEN [ClearPipelineReleaseTimers(m) EXCEPT
              !.disconnectionTimestamp = NoTimestamp]
    ELSE m

\* RecordingManager.createSession from the duplicate check to its await:
\* "duplicate", "failed" (no client), or "pending" (a pipeline is created).
CreateEntry(m, k, id) ==
    IF id \in m.sessions THEN "duplicate"
    ELSE IF ~(m.kurentoConnector /\ k.client) THEN "failed"
    ELSE "pending"

CreateContinue(c, m, k, id) ==
    LET e == CreateEntry(m, k, id) IN
    SetCall(c, IF e = "pending" THEN Suspended("createSession", id, "awaitPipeline")
               ELSE Ended("createSession", id, e))

\* RecordingManager.disconnect: TRUE when it preserves the pipelines.
Preserves(m, o, releasePipelines) ==
    m.sessions # {} /\ o.preservePipelinesOnDisconnect /\ ~releasePipelines

\* RecordingManager.disconnect, the preserving branch.
DisconnectPreserving(m, o, t) ==
    LET m1 == [m EXCEPT !.disconnectionTimestamp = t] IN
    IF o.maxReconnectionTimeMs > 0 THEN SchedulePipelineRelease(m1) ELSE m1

(***************************************************************************)
(* The supervisor called directly.                                         *)
(***************************************************************************)
ConnectCall(c) ==
    /\ calls[c].pc = "idle"
    /\ LET e == ConnectEntry(conn) IN
       /\ conn' = ConnectBegin(conn)
       /\ SetCall(c, IF e = "pending"
                     THEN Suspended("connect", Null, "awaitSingleton")
                     ELSE Ended("connect", Null, e))
    /\ events' = [Quiet(events) EXCEPT !.maxAttempts = 0]
    /\ UNCHANGED <<now, sess, cfg, mgr>>

\* getSingleton resolves (ok) or rejects for a caller's connect().
ConnectReturn(c) ==
    /\ calls[c].pc = "awaitSingleton"
    /\ calls[c].op = "connect"
    /\ \E ok \in BOOLEAN :
          /\ conn' = IF ok THEN ConnectResolved(conn)
                     ELSE ConnectRejected(conn, cfg)
          /\ SetCall(c, Ended("connect", Null,
                              IF ok THEN "connected" ELSE "failed"))
    /\ events' = Quiet(events)
    /\ UNCHANGED <<now, sess, cfg, mgr>>

DisconnectCall(c) ==
    /\ calls[c].pc = "idle"
    /\ conn' = DisconnectBegin(conn)
    /\ SetCall(c, IF conn.client
                  THEN Suspended("disconnect", Null, "awaitClose")
                  ELSE Ended("disconnect", Null, "ok"))
    /\ events' = Quiet(events)
    /\ UNCHANGED <<now, sess, cfg, mgr>>

\* close() resolves (ok) or rejects for a caller's disconnect().
DisconnectReturn(c) ==
    /\ calls[c].pc = "awaitClose"
    /\ calls[c].op = "disconnect"
    /\ \E ok \in BOOLEAN :
          SetCall(c, Ended("disconnect", Null, IF ok THEN "ok" ELSE "failed"))
    /\ conn' = DisconnectEnd(conn)
    /\ mgr' = OnDisconnected(mgr, cfg, now)
    /\ events' = [Quiet(events) EXCEPT !.disconnected = TRUE]
    /\ UNCHANGED <<now, sess, cfg>>

(***************************************************************************)
(* The retry timer.  Its callback clears the field and calls connect();    *)
(* when connect() does not reach the server the callback ends in the same  *)
(* step.                                                                   *)
(***************************************************************************)
RetryFire ==
    /\ conn.reconnectTimer
    /\ conn.retry = "idle"
    /\ LET k1 == [conn EXCEPT !.reconnectTimer = FALSE]
           e == ConnectEntry(k1)
       IN  /\ conn' = CASE e = "existing" -> k1
                        [] e = "in_progress" -> RetryFailed(k1, cfg)
                        [] OTHER -> [ConnectBegin(k1) EXCEPT
                                         !.retry = "awaitSingleton"]
           /\ events' = IF e = "in_progress" /\ RetryGivesUp(k1, cfg)
                        THEN [Quiet(events) EXCEPT !.maxAttempts = @ + 1]
                        ELSE Quiet(events)
    /\ UNCHANGED <<now, sess, cfg, mgr, calls>>

\* The retry callback after getSingleton resolved (ok) or rejected: connect()
\* ends, and on a rejection the callback's catch block runs.
RetryReturnRec(k, o, ok) ==
    IF ok THEN [ConnectResolved(k) EXCEPT !.retry = "idle"]
    ELSE RetryFailed([ConnectRejected(k, o) EXCEPT !.retry = "idle"], o)

\* getSingleton resolves (ok) or rejects for the retry callback's connect().
RetryReturn ==
    /\ conn.retry = "awaitSingleton"
    /\ \E ok \in BOOLEAN :
          /\ conn' = RetryReturnRec(conn, cfg, ok)
          /\ events' = IF ~ok /\ RetryGivesUp(ConnectRejected(conn, cfg), cfg)
                       THEN [Quiet(events) EXCEPT !.maxAttempts = @ + 1]
                       ELSE Quiet(events)
    /\ UNCHANGED <<now, sess, cfg, mgr, calls>>

(***************************************************************************)
(* The coordinator's calls.                                                *)
(***************************************************************************)
\* RecordingManager.connect
ManagerConnectCall(c) ==
    /\ calls[c].pc = "idle"
    /\ LET e == ManagerConnectEntry(mgr, conn) IN
       /\ conn' = IF e = "existing" THEN conn ELSE ConnectBegin(conn)
       /\ mgr' = IF e = "existing" THEN mgr
                 ELSE [mgr EXCEPT !.kurentoConnector = TRUE]
       /\ SetCall(c, CASE e = "existing" -> Ended("mgrConnect", Null, "ok")
                       [] e = "in_progress" -> Ended("mgrConnect", Null, "failed")
                       [] OTHER -> Suspended("mgrConnect", Null, "awaitSingleton"))
    /\ events' = [Quiet(events) EXCEPT !.maxAttempts = 0]
    /\ UNCHANGED <<now, sess, cfg>>

\* RecordingManager.createSession with the session id `id`.
CreateSessionCall(c, id) ==
    /\ calls[c].pc = "idle"
    /\ IF ~mgr.isInitialized \/ ~mgr.kurentoConnector \/ ~conn.client
       THEN LET e == ManagerConnectEntry(mgr, conn) IN
            /\ conn' = IF e = "existing" THEN conn ELSE ConnectBegin(conn)
            /\ mgr' = IF e = "existing" THEN mgr
                      ELSE [mgr EXCEPT !.kurentoConnector = TRUE]
            /\ events' = [Quiet(events) EXCEPT !.maxAttempts = 0]
            /\ CASE e = "existing" -> CreateContinue(c, mgr, conn, id)
                 [] e = "in_progress" ->
                        SetCall(c, Ended("createSession", id, "failed"))
                 [] OTHER ->
                        SetCall(c, Suspended("createSession", id, "awaitSingleton"))
       ELSE /\ CreateContinue(c, mgr, conn, id)
            /\ events' = Quiet(events)
            /\ UNCHANGED <<conn, mgr>>
    /\ UNCHANGED <<now, sess, cfg>>

\* getSingleton resolves (ok) or rejects for the connect() of a coordinator
\* call.
ManagerConnectReturn(c) ==
    /\ calls[c].pc = "awaitSingleton"
    /\ calls[c].op \in {"mgrConnect", "createSession"}
    /\ \E ok \in BOOLEAN :
          IF ok
          THEN /\ conn' = ConnectResolved(conn)
               /\ mgr' = ManagerConnected(mgr)
               /\ SetCall(c, Notified(Suspended(calls[c].op, calls[c].arg,
                                                "awaitTempDir"),
                                      IF calls[c].op = "mgrConnect"
                                      THEN 1 ELSE 0))
          ELSE /\ conn' = ConnectRejected(conn, cfg)
               /\ mgr' = mgr
               /\ SetCall(c, Ended(calls[c].op, calls[c].arg, "failed"))
    /\ events' = Quiet(events)
    /\ UNCHANGED <<now, sess, cfg>>

\* ensureTempDirectory resolves (ok) or rejects.
TempDirReturn(c) ==
    /\ calls[c].pc = "awaitTempDir"
    /\ \E ok \in BOOLEAN :
          IF ~ok
          THEN /\ mgr' = mgr
               /\ SetCall(c, Notified(Ended(calls[c].op, calls[c].arg, "failed"),
                                      calls[c].notified))
          ELSE /\ mgr' = [mgr EXCEPT !.isInitialized = TRUE]
               /\ IF calls[c].op = "mgrConnect"
                  THEN SetCall(c, Notified(Ended("mgrConnect", Null, "ok"),
                                           calls[c].notified + 1))
                  ELSE CreateContinue(c, [mgr EXCEPT !.isInitialized = TRUE],
                                      conn, calls[c].arg)
    /\ events' = Quiet(events)
    /\ UNCHANGED <<now, sess, cfg, conn>>

\* pipeline.initialize resolves (ok) or rejects; then the session is
\* constructed, initialized and stored.
PipelineReturn(c) ==
    /\ calls[c].pc = "awaitPipeline"
    /\ LET id == calls[c].arg IN
       \E ok \in BOOLEAN :
          IF ok
          THEN /\ SetSession(id, Done(InitializeRec(NewSession(AUDIO_VIDEO, TRUE)),
                                      "initialize", "ok"))
               /\ mgr' = [mgr EXCEPT !.sessions = @ \cup {id}]
               /\ events' = [Quiet(events) EXCEPT
                                 !.overwritten = @ \/ id \in mgr.sessions]
               /\ SetCall(c, Ended("createSession", id, "ok"))
          ELSE /\ SetCall(c, Ended("createSession", id, "failed"))
               /\ events' = Quiet(events)
               /\ UNCHANGED <<sess, mgr>>
    /\ UNCHANGED <<now, cfg, conn>>

\* RecordingManager.stopSession up to session.stop().
StopSessionCall(c, id) ==
    /\ calls[c].pc = "idle"
    /\ IF id \notin mgr.sessions
       THEN /\ SetCall(c, Ended("stopSession", id, "not_found"))
            /\ mgr' = mgr
       ELSE /\ SetCall(c, Suspended("stopSession", id, "awaitStop"))
            /\ mgr' = [mgr EXCEPT !.pipelineReleaseTimers[id] = "none"]
    /\ events' = Quiet(events)
    /\ UNCHANGED <<now, sess, cfg, conn>>

\* session.stop() returns or throws for stopSession.
StopSessionReturn(c) ==
    /\ calls[c].pc = "awaitStop"
    /\ LET id == calls[c].arg
           r == sess[id]
       IN  \E okDisconnect, okConnect, okRelease \in
                  Outcomes(RemovesBlankScreen(r)),
              okStop \in Outcomes(r.state \in {RECORDING, PAUSED, ERROR}
                                  /\ r.em_isRecording) :
              LET q == StopRec(r, okDisconnect, okConnect, okRelease, okStop,
                               now) IN
              /\ SetSession(id, q)
              /\ mgr' = IF q.outcome = "ok"
                        THEN [mgr EXCEPT !.sessions = @ \ {id}] ELSE mgr
              /\ SetCall(c, Ended("stopSession", id,
                                  IF q.outcome = "ok" THEN "ok" ELSE "failed"))
    /\ events' = Quiet(events)
    /\ UNCHANGED <<now, cfg, conn>>

\* RecordingManager.disconnect from the supervisor's disconnect() on.
DisconnectContinue(c, m, arg) ==
    IF ~m.kurentoConnector
    THEN /\ conn' = conn
         /\ mgr' = m
         /\ SetCall(c, Ended("mgrDisconnect", arg, "ok"))
    ELSE /\ conn' = DisconnectBegin(conn)
         /\ IF conn.client
            THEN /\ mgr' = m
                 /\ SetCall(c, Suspended("mgrDisconnect", arg, "awaitClose"))
            ELSE /\ mgr' = [m EXCEPT !.isInitialized = FALSE]
                 /\ SetCall(c, Notified(Ended("mgrDisconnect", arg, "ok"), 1))

\* RecordingManager.disconnect(releasePipelines)
ManagerDisconnectCall(c, releasePipelines) ==
    /\ calls[c].pc = "idle"
    /\ IF Preserves(mgr, cfg, releasePipelines)
       THEN /\ events' = [Quiet(events) EXCEPT
                              !.preserved = Cardinality(mgr.sessions)]
            /\ DisconnectContinue(c, DisconnectPreserving(mgr, cfg, now),
                                  "preserve")
       ELSE /\ events' = Quiet(events)
            /\ IF mgr.sessions # {}
               THEN /\ mgr' = ClearPipelineReleaseTimers(mgr)
                    /\ conn' = conn
                    /\ SetCall(c, Call("mgrDisconnect", "release",
                                       "awaitStopAll", Null, mgr.sessions))
               ELSE DisconnectContinue(c, mgr, "release")
    /\ UNCHANGED <<now, sess, cfg>>

\* One session.stop() of stopAllSessions returns or throws; after the last
\* one disconnect() goes on.
StopAllReturn(c, id) ==
    /\ calls[c].pc = "awaitStopAll"
    /\ id \in calls[c].pending
    /\ LET r == sess[id] IN
       \E okDisconnect, okConnect, okRelease \in
              Outcomes(RemovesBlankScreen(r)),
          okStop \in Outcomes(r.state \in {RECORDING, PAUSED, ERROR}
                              /\ r.em_isRecording) :
          LET q == StopRec(r, okDisconnect, okConnect, okRelease, okStop, now)
              m1 == IF q.outcome = "ok"
                    THEN [mgr EXCEPT !.sessions = @ \ {id}] ELSE mgr
              rest == calls[c].pending \ {id}
          IN  /\ SetSession(id, q)
              /\ IF rest = {}
                 THEN DisconnectContinue(c, m1, "release")
                 ELSE /\ mgr' = m1
                      /\ conn' = conn
                      /\ SetCall(c, [calls[c] EXCEPT !.pending = rest])
    /\ events' = Quiet(events)
    /\ UNCHANGED <<now, cfg>>

\* close() resolves (ok) or rejects for the coordinator's disconnect().
ManagerDisconnectReturn(c) ==
    /\ calls[c].pc = "awaitClose"
    /\ calls[c].op = "mgrDisconnect"
    /\ conn' = DisconnectEnd(conn)
    /\ \E ok \in BOOLEAN :
          LET m1 == OnDisconnected(mgr, cfg, now) IN
          /\ mgr' = IF ok THEN [m1 EXCEPT !.isInitialized = FALSE] ELSE m1
          /\ SetCall(c, IF ok
                        THEN Notified(Ended("mgrDisconnect", calls[c].arg, "ok"), 2)
                        ELSE Notified(Ended("mgrDisconnect", calls[c].arg,
                                            "failed"), 1))
    /\ events' = [Quiet(events) EXCEPT !.disconnected = TRUE]
    /\ UNCHANGED <<now, sess, cfg>>

(***************************************************************************)
(* The release timers.                                                     *)
(***************************************************************************)
\* The timer callback once session.release() is behind it, or when there was
\* no session: the entry is deleted and reconnection-timed-out is emitted.
TimedOut(m, id) == TimerEntryDeleted(m, id)

\* A release timer for `id` fires: the one the map holds (stray = FALSE) or
\* one it no longer holds.  The callback runs up to session.release().
ReleaseTimerFire(id, stray) ==
    /\ IF stray THEN mgr.strayTimers[id] > 0
       ELSE mgr.pipelineReleaseTimers[id] = "pending"
    /\ LET m1 == IF stray THEN [mgr EXCEPT !.strayTimers[id] = @ - 1]
                 ELSE [mgr EXCEPT !.pipelineReleaseTimers[id] = "fired"]
       IN  IF id \in mgr.sessions
           THEN /\ mgr.releasing[id] < MaxReleasing
                /\ mgr' = [m1 EXCEPT !.releasing[id] = @ + 1]
                /\ events' = Quiet(events)
           ELSE /\ TimedOut(m1, id).strayTimers[id] <= MaxStrayTimers
                /\ mgr' = TimedOut(m1, id)
                /\ events' = [Quiet(events) EXCEPT !.timedOut = {id}]
    /\ UNCHANGED <<now, sess, cfg, conn, calls>>

\* session.release() returns or throws in a timer callback.
ReleaseTimerReturn(id) ==
    /\ mgr.releasing[id] > 0
    /\ LET r == sess[id]
           m1 == [mgr EXCEPT !.releasing[id] = @ - 1]
       IN  \E okBlank \in Outcomes(r.blankScreenElement),
              okStop \in Outcomes(r.em_isRecording),
              okRecorder \in Outcomes(r.em_recorderEndpoint),
              okWebRtc \in Outcomes(r.em_webRtcEndpoint),
              okPipeline \in Outcomes(EnsurePipeline(r)) :
              LET q == ReleaseRec(r, okBlank, okStop, okRecorder, okWebRtc,
                                  okPipeline)
              IN  /\ SetSession(id, q)
                  /\ IF q.outcome = "ok"
                     THEN /\ TimedOut(m1, id).strayTimers[id] <= MaxStrayTimers
                          /\ mgr' = TimedOut([m1 EXCEPT !.sessions = @ \ {id}], id)
                          /\ events' = [Quiet(events) EXCEPT !.timedOut = {id}]
                     ELSE /\ mgr' = m1
                          /\ events' = Quiet(events)
    /\ UNCHANGED <<now, cfg, conn, calls>>

(***************************************************************************)
(* processOffer() and start() cut at their awaits, for callers that invoke *)
(* them on one session concurrently.  ServerCalls lists the awaits of      *)
(* processOffer() in order; a caller's pc names the server call it awaits. *)
(***************************************************************************)
ServerCalls ==
    <<"awaitCreateWebRtc", "awaitCreateRecorder", "awaitConnect",
      "awaitProcessOffer", "awaitGather", "awaitBandwidth">>

CallIndex(pc) == CHOOSE k \in 1..Len(ServerCalls) : ServerCalls[k] = pc

\* What the server call k of processOffer() leaves when it resolves.  After
\* the third, createEndpoints has returned and setEndpoint hands the
\* WebRTCHandler the ingress element.
ServerCallResolved(r, k) ==
    CASE k = 1 -> [r EXCEPT !.em_webRtcEndpoint = TRUE,
                            !.srv_webRtcCreated = OneMore(@)]
      [] k = 2 -> [r EXCEPT !.em_recorderEndpoint = TRUE,
                            !.srv_recorderCreated = OneMore(@),
                            !.srv_ingressVideo = FALSE,
                            !.srv_blankVideo = FALSE]
      [] k = 3 -> [SetEndpoint(r) EXCEPT
                            !.srv_negotiated = FALSE,
                            !.srv_ingressVideo = RecordsVideo(r.em_recordingMode)]
      [] k = 4 -> [r EXCEPT !.srv_negotiated = TRUE]
      [] OTHER -> r

\* TRUE when processOffer() throws before it makes the server call k: the
\* pipeline is gone, an element to connect is missing, or the handler has
\* no ingress element.
ServerCallRefused(r, k) ==
    CASE k \in {1, 2} -> ~EnsurePipeline(r)
      [] k = 3 -> ~(r.em_webRtcEndpoint /\ r.em_recorderEndpoint
                    /\ EnsurePipeline(r))
      [] OTHER -> ~r.wh_webRtcEndpoint

\* processOffer() up to its first await.
ProcessOfferCall(c, s) ==
    /\ calls[c].pc = "idle"
    /\ LET r == sess[s] IN
       IF r.state # READY \/ ~r.endpointManager \/ ServerCallRefused(r, 1)
       THEN LET q == ProcessOfferRec(r, 1) IN
            /\ SetSession(s, q)
            /\ SetCall(c, Ended("processOffer", s, q.outcome))
       ELSE /\ SetSession(s, [r EXCEPT !.em_recordingMode = r.recordingMode])
            /\ SetCall(c, Suspended("processOffer", s, ServerCalls[1]))
    /\ events' = Quiet(events)
    /\ UNCHANGED <<now, cfg, conn, mgr>>

\* The server call a processOffer() awaits resolves (ok) or rejects; the
\* call runs on to its next await, to its return or to its catch block.
ProcessOfferReturn(c) ==
    /\ calls[c].op = "processOffer"
    /\ calls[c].pc # "idle"
    /\ LET s == calls[c].arg
           k == CallIndex(calls[c].pc)
       IN  \E ok \in BOOLEAN :
              LET r1 == IF ok THEN ServerCallResolved(sess[s], k) ELSE sess[s]
                  threw == ~ok \/ (k < Len(ServerCalls)
                                   /\ ServerCallRefused(r1, k + 1))
              IN  IF threw
                  THEN /\ SetSession(s, Done(SetState(r1, ERROR),
                                             "processOffer", "failed"))
                       /\ SetCall(c, Ended("processOffer", s, "failed"))
                  ELSE IF k = Len(ServerCalls)
                  THEN /\ SetSession(s, Done(r1, "processOffer", "ok"))
                       /\ SetCall(c, Ended("processOffer", s, "ok"))
                  ELSE /\ SetSession(s, r1)
                       /\ SetCall(c, Suspended("processOffer", s,
                                               ServerCalls[k + 1]))
    /\ events' = Quiet(events)
    /\ UNCHANGED <<now, cfg, conn, mgr>>

\* TRUE when start() reaches the recorder's record() call.
StartRecords(r) ==
    /\ r.state = READY
    /\ r.endpointManager /\ r.wh_webRtcEndpoint
    /\ r.em_recorderEndpoint /\ ~r.em_isRecording

\* start() up to its await of record(), or as a whole when it makes no
\* server call.
StartCall(c, s) ==
    /\ calls[c].pc = "idle"
    /\ IF StartRecords(sess[s])
       THEN /\ SetCall(c, Suspended("start", s, "awaitRecord"))
            /\ sess' = sess
       ELSE LET q == StartRec(sess[s], TRUE, now) IN
            /\ SetSession(s, q)
            /\ SetCall(c, Ended("start", s, q.outcome))
    /\ events' = Quiet(events)
    /\ UNCHANGED <<now, cfg, conn, mgr>>

\* record() resolves (ok) or rejects for a start().
StartReturn(c) ==
    /\ calls[c].pc = "awaitRecord"
    /\ LET s == calls[c].arg IN
       \E ok \in BOOLEAN :
          LET q == IF ok
                   THEN Done(SetState([sess[s] EXCEPT !.em_isRecording = TRUE,
                                                      !.startTime = now],
                                      RECORDING), "start", "ok")
                   ELSE Done(SetState(sess[s], ERROR), "start", "failed")
          IN  /\ SetSession(s, q)
              /\ SetCall(c, Ended("start", s, q.outcome))
    /\ events' = Quiet(events)
    /\ UNCHANGED <<now, cfg, conn, mgr>>

(***************************************************************************)
(* SpecSession: one session, constructed over an initialized pipeline with *)
(* any recording mode and either blank-screen policy, driven by any        *)
(* sequence of public calls.  No call reads the clock to decide anything,  *)
(* so the clock stands still here; SpecTiming lets it run.                 *)
(***************************************************************************)
TheSession == "a"

\* No coordinator and no supervisor activity: the configuration holds its
\* defaults.
InitCoordIdle ==
    /\ cfg = NewConfig(TRUE, DefaultReconnectAttempts, FALSE,
                       DefaultMaxReconnectionTimeMs)
    /\ conn = NewConnector
    /\ mgr = NewManager
    /\ calls = [c \in Callers |-> IdleCall]
    /\ events = NoEvents

InitSession ==
    /\ now = EpochStart
    /\ InitCoordIdle
    /\ \E mode \in RecordingModes, blank \in BOOLEAN :
           sess = [s \in SessionIds |->
                      IF s = TheSession THEN NewSession(mode, blank)
                      ELSE NewSession(AUDIO_VIDEO, TRUE)]

NextSession ==
    \/ Initialize(TheSession)
    \/ ProcessOffer(TheSession)
    \/ Start(TheSession)
    \/ Pause(TheSession)
    \/ Resume(TheSession)
    \/ Stop(TheSession)
    \/ Release(TheSession)

SpecSession == InitSession /\ [][NextSession]_vars

(***************************************************************************)
(* SpecTiming: the same session under a running clock.  Only the calls the *)
(* state guard accepts are taken (a rejected call changes nothing but the  *)
(* record of the call), and release() is left to SpecSession: it writes no *)
(* time field, and all it changes for the later calls, a recorder that is  *)
(* gone or will not stop, is reached here by a failing stop().             *)
(***************************************************************************)
InitTiming ==
    /\ now = EpochStart
    /\ InitCoordIdle
    /\ \E blank \in BOOLEAN :
           sess = [s \in SessionIds |->
                      IF s = TheSession THEN NewSession(AUDIO_VIDEO, blank)
                      ELSE NewSession(AUDIO_VIDEO, TRUE)]

NextTiming ==
    \/ Initialize(TheSession)
    \/ sess[TheSession].state = READY /\ ProcessOffer(TheSession)
    \/ sess[TheSession].state = READY /\ Start(TheSession)
    \/ sess[TheSession].state = RECORDING /\ Pause(TheSession)
    \/ sess[TheSession].state = PAUSED /\ Resume(TheSession)
    \/ sess[TheSession].state \in {RECORDING, PAUSED, ERROR} /\ Stop(TheSession)
    \/ Tick

SpecTiming == InitTiming /\ [][NextTiming]_vars

(***************************************************************************)
(* SpecGuards: one audio-video session, with either blank-screen policy,   *)
(* driven by any sequence of the calls that have a state guard, setQuality *)
(* included.                                                               *)
(***************************************************************************)
InitGuards ==
    /\ now = EpochStart
    /\ InitCoordIdle
    /\ \E blank \in BOOLEAN :
           sess = [s \in SessionIds |->
                      IF s = TheSession THEN NewSession(AUDIO_VIDEO, blank)
                      ELSE NewSession(AUDIO_VIDEO, TRUE)]

NextGuards ==
    \/ Initialize(TheSession)
    \/ ProcessOffer(TheSession)
    \/ Start(TheSession)
    \/ Pause(TheSession)
    \/ Resume(TheSession)
    \/ Stop(TheSession)
    \/ SetQuality(TheSession)

SpecGuards == InitGuards /\ [][NextGuards]_vars

(***************************************************************************)
(* SpecSignaling: one audio-video session with blank-screen substitution   *)
(* is passed ICE candidates at any time between its calls; the server      *)
(* answers the buffered candidates one after the other.                    *)
(***************************************************************************)
InitSignaling ==
    /\ now = EpochStart
    /\ InitCoordIdle
    /\ sess = [s \in SessionIds |-> NewSession(AUDIO_VIDEO, TRUE)]

SpecSignaling ==
    InitSignaling /\
    [][\/ Initialize(TheSession)
       \/ ProcessOffer(TheSession)
       \/ Start(TheSession)
       \/ Pause(TheSession)
       \/ Resume(TheSession)
       \/ Stop(TheSession)
       \/ AddIceCandidate(TheSession)
       \/ ApplyReturn(TheSession)]_vars

(***************************************************************************)
(* MediaPipeline called directly by concurrent callers.  The pipeline is   *)
(* the one of TheSession, not yet initialized: pl_elements counts the      *)
(* named elements of its registry and srv_graphs the processing graphs     *)
(* created on the server ("none", "one", "many").  initialize() and        *)
(* release() are cut at their await; the other operations run whole.       *)
(***************************************************************************)
PipelineInitializeCall(c) ==
    /\ calls[c].pc = "idle"
    /\ SetCall(c, IF sess[TheSession].pl_pipeline
                  THEN Ended("pipeline.initialize", Null, "ok")
                  ELSE Suspended("pipeline.initialize", Null, "awaitCreate"))
    /\ events' = Quiet(events)
    /\ UNCHANGED <<now, sess, cfg, conn, mgr>>

\* kurentoClient.create('MediaPipeline') resolves (ok) or rejects.
PipelineInitializeReturn(c) ==
    /\ calls[c].pc = "awaitCreate"
    /\ \E ok \in BOOLEAN :
          IF ok
          THEN /\ SetSession(TheSession,
                     [sess[TheSession] EXCEPT !.pl_pipeline = TRUE,
                                              !.srv_graphs = OneMore(@)])
               /\ SetCall(c, Ended("pipeline.initialize", Null, "ok"))
          ELSE /\ sess' = sess
               /\ SetCall(c, Ended("pipeline.initialize", Null, "failed"))
    /\ events' = Quiet(events)
    /\ UNCHANGED <<now, cfg, conn, mgr>>

PipelineReleaseCall(c) ==
    /\ calls[c].pc = "idle"
    /\ SetCall(c, IF sess[TheSession].pl_isReleased
                     \/ ~sess[TheSession].pl_pipeline
                  THEN Ended("pipeline.release", Null, "ok")
                  ELSE Suspended("pipeline.release", Null, "awaitRelease"))
    /\ events' = Quiet(events)
    /\ UNCHANGED <<now, sess, cfg, conn, mgr>>

\* pipeline.release() resolves (ok) or rejects.
PipelineReleaseReturn(c) ==
    /\ calls[c].pc = "awaitRelease"
    /\ \E ok \in BOOLEAN :
          IF ok
          THEN /\ SetSession(TheSession,
                     [sess[TheSession] EXCEPT !.pl_pipeline = FALSE,
                                              !.pl_elements = 0,
                                              !.pl_isReleased = TRUE])
               /\ SetCall(c, Ended("pipeline.release", Null, "ok"))
          ELSE /\ sess' = sess
               /\ SetCall(c, Ended("pipeline.release", Null, "failed"))
    /\ events' = Quiet(events)
    /\ UNCHANGED <<now, cfg, conn, mgr>>

\* The guard at the head of an operation on the pipeline: ensurePipeline(),
\* but createBlankVideoElement only tests the pipeline reference.
PipelineAvailable(r, op) ==
    IF op = "createBlankVideoElement" THEN r.pl_pipeline ELSE EnsurePipeline(r)

\* createWebRtcEndpoint, createRecorderEndpoint, createElement (named: an id
\* is given and the element enters the registry), connect and
\* createBlankVideoElement.
PipelineOperation(c, op, named) ==
    /\ calls[c].pc = "idle"
    /\ \E ok \in Outcomes(PipelineAvailable(sess[TheSession], op)) :
          LET r == sess[TheSession]
              registers == /\ named /\ ok /\ PipelineAvailable(r, op)
                           /\ op \notin {"connect", "createBlankVideoElement"}
          IN  /\ registers => r.pl_elements < MaxElements
              /\ SetSession(TheSession,
                     IF registers THEN [r EXCEPT !.pl_elements = @ + 1]
                     ELSE r)
              /\ SetCall(c, Ended(op, named,
                                  IF ~PipelineAvailable(r, op)
                                  THEN "pipeline_unavailable"
                                  ELSE IF ok THEN "ok" ELSE "failed"))
    /\ events' = Quiet(events)
    /\ UNCHANGED <<now, cfg, conn, mgr>>

(***************************************************************************)
(* SpecPipeline: two callers invoke the operations of one pipeline in any  *)
(* order, initialize() and release() overlapping.                          *)
(***************************************************************************)
InitPipeline ==
    /\ now = EpochStart
    /\ InitCoordIdle
    /\ sess = [s \in SessionIds |->
                  [NewSession(AUDIO_VIDEO, TRUE) EXCEPT !.pl_pipeline = FALSE]
                      @@ [ pl_elements |-> 0, srv_graphs |-> "none" ]]

SpecPipeline ==
    InitPipeline /\
    [][\E c \in Callers :
          \/ PipelineInitializeCall(c)
          \/ PipelineInitializeReturn(c)
          \/ PipelineReleaseCall(c)
          \/ PipelineReleaseReturn(c)
          \/ \E op \in {"createWebRtcEndpoint", "createRecorderEndpoint",
                         "createElement", "connect",
                         "createBlankVideoElement"},
                named \in BOOLEAN : PipelineOperation(c, op, named)]_vars

(***************************************************************************)
(* The EndpointManager on its own.  srv_connections lists the scope of     *)
(* every connect call made from the ingress element to the recorder,       *)
(* em_warned tells that the unknown-mode warning was logged, srv_records   *)
(* counts the record() calls made on the current recorder since it was     *)
(* created or its last successful stop().  createEndpoints runs whole;     *)
(* startRecording() and stopRecording() are cut at their await.            *)
(***************************************************************************)
CreateEndpoints(c) ==
    /\ calls[c].pc = "idle"
    /\ Len(sess[TheSession].srv_connections) < MaxConnections
    /\ \E f \in 0..3 :
          LET r == sess[TheSession]
              ff == CreateEndpointsFail(r, f)
              connects == ff \in {0, 3}
          IN  /\ SetSession(TheSession,
                     [CreateEndpointsRec(r, f) EXCEPT
                         !.srv_connections =
                             IF connects
                             THEN Append(@, ConnectionScope(r.recordingMode))
                             ELSE @,
                         !.em_warned =
                             @ \/ (connects
                                     /\ r.recordingMode \notin RecordingModes),
                         !.srv_records = IF connects THEN "none" ELSE @])
              /\ SetCall(c, Ended("createEndpoints", Null,
                                  IF ff = 0 THEN "ok" ELSE "failed"))
    /\ events' = Quiet(events)
    /\ UNCHANGED <<now, cfg, conn, mgr>>

\* startRecording(): its guards and the record() call, then the call's
\* resolution (ok) or rejection.
StartRecording(c) ==
    /\ \/ /\ calls[c].pc = "idle"
          /\ LET r == sess[TheSession] IN
             IF ~r.em_recorderEndpoint
             THEN /\ sess' = sess
                  /\ SetCall(c, Ended("startRecording", Null,
                                      "recorder_unavailable"))
             ELSE IF r.em_isRecording
             THEN /\ sess' = sess
                  /\ SetCall(c, Ended("startRecording", Null, "ok"))
             ELSE /\ SetSession(TheSession,
                         [r EXCEPT !.srv_records = OneMore(@)])
                  /\ SetCall(c, Suspended("startRecording", Null,
                                          "awaitRecord"))
       \/ /\ calls[c].pc = "awaitRecord"
          /\ \E ok \in BOOLEAN :
                IF ok
                THEN /\ SetSession(TheSession,
                            [sess[TheSession] EXCEPT !.em_isRecording = TRUE])
                     /\ SetCall(c, Ended("startRecording", Null, "ok"))
                ELSE /\ sess' = sess
                     /\ SetCall(c, Ended("startRecording", Null, "failed"))
    /\ events' = Quiet(events)
    /\ UNCHANGED <<now, cfg, conn, mgr>>

\* stopRecording(): its guards and the stop() call, then the call's
\* resolution (ok) or rejection.
StopRecording(c) ==
    /\ \/ /\ calls[c].pc = "idle"
          /\ LET r == sess[TheSession] IN
             IF ~r.em_recorderEndpoint
             THEN /\ sess' = sess
                  /\ SetCall(c, Ended("stopRecording", Null,
                                      "recorder_unavailable"))
             ELSE IF ~r.em_isRecording
             THEN /\ sess' = sess
                  /\ SetCall(c, Ended("stopRecording", Null, "ok"))
             ELSE /\ sess' = sess
                  /\ SetCall(c, Suspended("stopRecording", Null,
                                          "awaitStop"))
       \/ /\ calls[c].pc = "awaitStop"
          /\ \E ok \in BOOLEAN :
                IF ok
                THEN /\ SetSession(TheSession,
                            [sess[TheSession] EXCEPT !.em_isRecording = FALSE,
                                                     !.srv_records = "none"])
                     /\ SetCall(c, Ended("stopRecording", Null, "ok"))
                ELSE /\ sess' = sess
                     /\ SetCall(c, Ended("stopRecording", Null, "failed"))
    /\ events' = Quiet(events)
    /\ UNCHANGED <<now, cfg, conn, mgr>>

(***************************************************************************)
(* SpecEndpoints: two callers invoke createEndpoints(), startRecording()   *)
(* and stopRecording() of one EndpointManager at any time, in each of the  *)
(* three recording modes and with a mode that is none of them.             *)
(***************************************************************************)
InitEndpoints ==
    /\ now = EpochStart
    /\ InitCoordIdle
    /\ \E mode \in RecordingModes \cup {UnrecognizedMode} :
          sess = [s \in SessionIds |->
                     NewSession(mode, TRUE)
                         @@ [ srv_connections |-> <<>>, em_warned |-> FALSE,
                              srv_records |-> "none" ]]

SpecEndpoints ==
    InitEndpoints /\
    [][\E c \in Callers :
          \/ CreateEndpoints(c)
          \/ StartRecording(c)
          \/ StopRecording(c)]_vars

(***************************************************************************)
(* The bitrate bounds of a session.  An optional number is a sequence,     *)
(* empty when the caller left it out.  opt_supplied holds the options      *)
(* given to createSession, opt_minBitrate, opt_maxBitrate and              *)
(* opt_frameRateValue the session's options (what getOptions() returns),   *)
(* srv_minBandwidth and srv_maxBandwidth the bounds last set on the        *)
(* session's ingress element (0 when none was set on it).                  *)
(***************************************************************************)
\* DEFAULT_QUALITY_SETTINGS
QualitySettings(quality) ==
    CASE quality = "low" ->
           [ maxBitrate |-> 1000, minBitrate |-> 200, frameRate |-> 15 ]
      [] quality = "medium" ->
           [ maxBitrate |-> 2000, minBitrate |-> 500, frameRate |-> 24 ]
      [] quality = "high" ->
           [ maxBitrate |-> 4000, minBitrate |-> 1000, frameRate |-> 30 ]
      [] quality = "ultra" ->
           [ maxBitrate |-> 8000, minBitrate |-> 2000, frameRate |-> 60 ]

\* validateSessionOptions as it would be without the exchange of a minimum
\* above the maximum.
ValidateSessionOptionsUnordered(o) ==
    LET quality == IF o.quality = <<>> THEN "high" ELSE o.quality[1]
        qualitySettings == QualitySettings(quality)
        min0 == IF o.minBitrate = <<>> THEN qualitySettings.minBitrate
                ELSE o.minBitrate[1]
        max0 == IF o.maxBitrate = <<>> THEN qualitySettings.maxBitrate
                ELSE o.maxBitrate[1]
    IN  [ quality |-> quality,
          minBitrate |-> IF min0 <= 0 THEN qualitySettings.minBitrate
                         ELSE min0,
          maxBitrate |-> IF max0 <= 0 THEN qualitySettings.maxBitrate
                         ELSE max0,
          frameRate |-> qualitySettings.frameRate ]

\* ConfigManager.validateSessionOptions, for the quality preset and the
\* bitrate bounds: ?? takes the preset's value for a bound left out, a bound
\* that is not positive is replaced by the preset's, and a minimum above
\* the maximum is exchanged with it.
ValidateSessionOptions(o) ==
    LET quality == IF o.quality = <<>> THEN "high" ELSE o.quality[1]
        qualitySettings == QualitySettings(quality)
        min0 == IF o.minBitrate = <<>> THEN qualitySettings.minBitrate
                ELSE o.minBitrate[1]
        max0 == IF o.maxBitrate = <<>> THEN qualitySettings.maxBitrate
                ELSE o.maxBitrate[1]
        min1 == IF min0 <= 0 THEN qualitySettings.minBitrate ELSE min0
        max1 == IF max0 <= 0 THEN qualitySettings.maxBitrate ELSE max0
    IN  [ quality |-> quality,
          minBitrate |-> IF min1 > max1 THEN max1 ELSE min1,
          maxBitrate |-> IF min1 > max1 THEN min1 ELSE max1,
          frameRate |-> qualitySettings.frameRate ]

\* createSession validates the options and constructs the session on them.
ValidateOptions(s) ==
    /\ sess[s].lastOp = "new"
    /\ LET o == ValidateSessionOptions(sess[s].opt_supplied) IN
       SetSession(s, Done([sess[s] EXCEPT
                               !.opt_minBitrate = o.minBitrate,
                               !.opt_maxBitrate = o.maxBitrate,
                               !.opt_frameRateValue = o.frameRate],
                          "createSession", "ok"))
    /\ events' = Quiet(events)
    /\ UNCHANGED <<now, coordVars>>

\* WebRTCHandler.setQualityParameters: a bound is set on the ingress element
\* when it is positive, the minimum first; okMin and okMax are the outcomes
\* of the two calls.  Gives the session and whether the call succeeded.
SetQualityParameters(r, minBitrate, maxBitrate, okMin, okMax) ==
    IF ~r.wh_webRtcEndpoint THEN [ r |-> r, ok |-> FALSE ]
    ELSE LET failMin == minBitrate > 0 /\ ~okMin
             failMax == ~failMin /\ maxBitrate > 0 /\ ~okMax
             r1 == IF minBitrate > 0 /\ okMin
                   THEN [r EXCEPT !.srv_minBandwidth = minBitrate] ELSE r
             r2 == IF ~failMin /\ maxBitrate > 0 /\ okMax
                   THEN [r1 EXCEPT !.srv_maxBandwidth = maxBitrate] ELSE r1
         IN  [ r |-> r2, ok |-> ~failMin /\ ~failMax ]

\* processOffer() with the bounds it sets on the new ingress element; the
\* failures of its earlier server calls are left to the other
\* specifications.
ProcessOfferBitrates(s) ==
    /\ \E okMin, okMax \in Outcomes(sess[s].state = READY) :
          LET r == sess[s]
              q == ProcessOfferRec(r, IF okMin /\ okMax THEN 0 ELSE 6)
              created == r.state = READY /\ q.wh_webRtcEndpoint
              p == SetQualityParameters(
                       [q EXCEPT !.srv_minBandwidth = 0,
                                 !.srv_maxBandwidth = 0],
                       r.opt_minBitrate, r.opt_maxBitrate, okMin, okMax)
          IN  SetSession(s, IF created THEN p.r ELSE q)
    /\ events' = Quiet(events)
    /\ UNCHANGED <<now, coordVars>>

\* setQuality as it would be if it stored the bounds before the server had
\* accepted them, the server refusing them.
SetBitratesStoredFirst(s) ==
    /\ sess[s].state \in {RECORDING, PAUSED}
    /\ SetSession(s, DoneArg([sess[s] EXCEPT !.opt_minBitrate = 300,
                                             !.opt_maxBitrate = 5000],
                             "setQuality", << <<300>>, <<5000>> >>, "failed"))
    /\ events' = Quiet(events)
    /\ UNCHANGED <<now, coordVars>>

\* setQuality(params) with the values of its bounds: min and max are the
\* optional bounds of params (kept as the call's argument), frameRate tells
\* that params has a frame rate.  The bounds given are none, both, a minimum
\* of zero, a minimum above any preset's maximum and a maximum below any
\* preset's minimum.
SetBitrates(s) ==
    /\ \E params \in { << <<>>, <<>> >>, << <<300>>, <<5000>> >>,
                        << <<0>>, <<>> >>, << <<9000>>, <<>> >>,
                        << <<>>, <<100>> >> },
          frameRate \in BOOLEAN :
          LET r == sess[s]
              min == params[1]
              max == params[2]
              bitrate == min # <<>> \/ max # <<>>
              minBitrate == IF min # <<>> THEN min[1] ELSE r.opt_minBitrate
              maxBitrate == IF max # <<>> THEN max[1] ELSE r.opt_maxBitrate
              sets == /\ bitrate /\ r.state \in {RECORDING, PAUSED}
                      /\ r.wh_webRtcEndpoint
          IN  \E okMin \in Outcomes(sets /\ minBitrate > 0) :
              \E okMax \in Outcomes(sets /\ okMin /\ maxBitrate > 0) :
                 LET p == IF sets
                          THEN SetQualityParameters(r, minBitrate, maxBitrate,
                                                    okMin, okMax)
                          ELSE [ r |-> r, ok |-> TRUE ]
                     q == SetQualityRec(p.r, bitrate, frameRate, p.ok)
                 IN  SetSession(s, IF q.outcome = "ok" /\ bitrate
                                   THEN [q EXCEPT
                                            !.lastArg = <<min, max>>,
                                            !.opt_minBitrate = minBitrate,
                                            !.opt_maxBitrate = maxBitrate]
                                   ELSE [q EXCEPT !.lastArg = <<min, max>>])
    /\ events' = Quiet(events)
    /\ UNCHANGED <<now, coordVars>>

(***************************************************************************)
(* SpecOptions: createSession is given any quality preset, or none, and    *)
(* any bitrate bounds: left out, negative, zero or positive, below and     *)
(* above the presets' values.                                              *)
(***************************************************************************)
InitOptions ==
    /\ now = EpochStart
    /\ InitCoordIdle
    /\ \E quality \in {<<>>, <<"low">>, <<"medium">>, <<"high">>, <<"ultra">>},
          min, max \in {<<>>, <<-1>>, <<0>>, <<300>>, <<5000>>} :
          sess = [s \in SessionIds |->
                     NewSession(AUDIO_VIDEO, FALSE)
                         @@ [ opt_supplied |-> [ quality |-> quality,
                                                 minBitrate |-> min,
                                                 maxBitrate |-> max ],
                              opt_minBitrate |-> 0, opt_maxBitrate |-> 0,
                              opt_frameRateValue |-> 0 ]]

SpecOptions == InitOptions /\ [][ValidateOptions(TheSession)]_vars

(***************************************************************************)
(* SpecQuality: one session, created with the options of a preset, is     *)
(* started and given any sequence of setQuality calls.                     *)
(***************************************************************************)
InitQuality ==
    /\ now = EpochStart
    /\ InitCoordIdle
    /\ \E quality \in {<<>>, <<"low">>} :
          LET o == ValidateSessionOptions([ quality |-> quality,
                                            minBitrate |-> <<>>,
                                            maxBitrate |-> <<>> ])
          IN  sess = [s \in SessionIds |->
                         NewSession(AUDIO_VIDEO, FALSE)
                             @@ [ opt_minBitrate |-> o.minBitrate,
                                  opt_maxBitrate |-> o.maxBitrate,
                                  srv_minBandwidth |-> 0,
                                  srv_maxBandwidth |-> 0 ]]

SpecQuality ==
    InitQuality /\
    [][\/ Initialize(TheSession)
       \/ ProcessOfferBitrates(TheSession)
       \/ sess[TheSession].state = READY /\ Start(TheSession)
       \/ sess[TheSession].state = RECORDING /\ Pause(TheSession)
       \/ SetBitrates(TheSession)]_vars

(***************************************************************************)
(* SpecNegotiation: one session whose processOffer() and start() are       *)
(* invoked by two callers at any time, also while another call on the      *)
(* session awaits the server.                                              *)
(***************************************************************************)
InitNegotiation ==
    /\ now = EpochStart
    /\ InitCoordIdle
    /\ sess = [s \in SessionIds |-> NewSession(AUDIO_VIDEO, TRUE)]

NextNegotiation ==
    \/ Initialize(TheSession)
    \/ \E c \in Callers : ProcessOfferCall(c, TheSession)
    \/ \E c \in Callers : ProcessOfferReturn(c)
    \/ \E c \in Callers : StartCall(c, TheSession)
    \/ \E c \in Callers : StartReturn(c)

SpecNegotiation == InitNegotiation /\ [][NextNegotiation]_vars

(***************************************************************************)
(* SpecConnector: the supervisor alone, with or without automatic          *)
(* reconnection and any maximum of attempts, called by concurrent callers. *)
(***************************************************************************)
InitConnector ==
    /\ now = EpochStart
    /\ sess = [s \in SessionIds |-> NewSession(AUDIO_VIDEO, TRUE)]
    /\ \E reconnect \in BOOLEAN, attempts \in 0..MaxReconnectAttempts :
           cfg = NewConfig(reconnect, attempts, FALSE,
                           DefaultMaxReconnectionTimeMs)
    /\ conn = NewConnector
    /\ mgr = NewManager
    /\ calls = [c \in Callers |-> IdleCall]
    /\ events = NoEvents

NextConnector ==
    \/ \E c \in Callers : ConnectCall(c)
    \/ \E c \in Callers : ConnectReturn(c)
    \/ \E c \in Callers : DisconnectCall(c)
    \/ \E c \in Callers : DisconnectReturn(c)
    \/ RetryFire
    \/ RetryReturn

SpecConnector == InitConnector /\ [][NextConnector]_vars

(***************************************************************************)
(* SpecRetry: the supervisor with reconnection enabled and a maximum of at *)
(* least one attempt, while the server is unreachable: one connect() that  *)
(* contacts the server, and every attempt, the retries included, fails.    *)
(* Callers that call connect() while an attempt is in flight are refused.  *)
(* retries counts the attempts the retry callback has made.  Timers fire   *)
(* and server calls return.                                                *)
(***************************************************************************)
InitRetry ==
    /\ now = EpochStart
    /\ sess = [s \in SessionIds |-> NewSession(AUDIO_VIDEO, TRUE)]
    /\ \E attempts \in 1..MaxReconnectAttempts :
           cfg = NewConfig(TRUE, attempts, FALSE, DefaultMaxReconnectionTimeMs)
    /\ conn = NewConnector @@ [retries |-> 0]
    /\ mgr = NewManager
    /\ calls = [c \in Callers |-> IdleCall]
    /\ events = NoEvents

\* connect(): the first call, or a call made while an attempt is in flight.
ConnectOnce(c) ==
    /\ conn.isConnecting \/ \A d \in Callers : calls[d].op = "none"
    /\ ConnectCall(c)

\* getSingleton rejects for a caller's connect().
ConnectRefused(c) ==
    /\ ConnectReturn(c)
    /\ ~conn'.client

\* getSingleton rejects for the retry callback's connect().
RetryRefused ==
    /\ conn.retry = "awaitSingleton"
    /\ conn' = [RetryReturnRec(conn, cfg, FALSE) EXCEPT !.retries = @ + 1]
    /\ events' = IF RetryGivesUp(ConnectRejected(conn, cfg), cfg)
                 THEN [Quiet(events) EXCEPT !.maxAttempts = @ + 1]
                 ELSE Quiet(events)
    /\ UNCHANGED <<now, sess, cfg, mgr, calls>>

SpecRetry ==
    /\ InitRetry
    /\ [][\/ \E c \in Callers : ConnectOnce(c)
          \/ \E c \in Callers : ConnectRefused(c)
          \/ RetryFire
          \/ RetryRefused]_vars
    /\ WF_vars(\E c \in Callers : ConnectRefused(c))
    /\ WF_vars(RetryFire)
    /\ WF_vars(RetryRefused)

(***************************************************************************)
(* KurentoConnector.calculateReconnectDelay.  The delays are positive      *)
(* integers of milliseconds.  Math.random() is x / RandomSteps, so the     *)
(* jitter Math.random() * 0.5 + 0.5 is (x + RandomSteps) / (2 *            *)
(* RandomSteps), a value of [0.5, 1).                                      *)
(***************************************************************************)
RECURSIVE Pow2(_)
Pow2(n) == IF n = 0 THEN 1 ELSE 2 * Pow2(n - 1)

\* The backoff as it would be without the clamp to maxDelay.
ExponentialBackoffUnclamped(baseDelay, maxDelay, attempts) ==
    baseDelay * Pow2(attempts - 1)

\* Math.min(maxDelay, baseDelay * Math.pow(2, reconnectAttempts - 1))
ExponentialBackoff(baseDelay, maxDelay, attempts) ==
    LET power == baseDelay * Pow2(attempts - 1) IN
    IF maxDelay <= power THEN maxDelay ELSE power

\* Math.floor(exponentialBackoff * jitter) for Math.random() = x / RandomSteps
CalculateReconnectDelay(baseDelay, maxDelay, attempts, x) ==
    (ExponentialBackoff(baseDelay, maxDelay, attempts) * (x + RandomSteps))
        \div (2 * RandomSteps)

(***************************************************************************)
(* SpecBackoff: a supervisor with any base and maximum delay schedules     *)
(* retry after retry, with any jitter.                                     *)
(***************************************************************************)
InitBackoff ==
    /\ now = EpochStart
    /\ sess = [s \in SessionIds |-> NewSession(AUDIO_VIDEO, TRUE)]
    /\ \E baseDelay \in 1..MaxBaseDelay, maxDelay \in 1..MaxMaxDelay :
           cfg = NewConfig(TRUE, MaxReconnectAttempts + 1, FALSE,
                           DefaultMaxReconnectionTimeMs)
                     @@ [ reconnectBaseDelay |-> baseDelay,
                          reconnectMaxDelay |-> maxDelay ]
    /\ conn = NewConnector
    /\ mgr = NewManager
    /\ calls = [c \in Callers |-> IdleCall]
    /\ events = NoEvents @@ [ reconnectDelay |-> 0 ]

\* A connection attempt failed and scheduleReconnect() arms the timer with
\* the delay it computed from the incremented counter.
ScheduleRetry ==
    /\ conn.reconnectAttempts < cfg.reconnectAttempts
    /\ conn' = ScheduleReconnect(conn)
    /\ \E x \in 0..(RandomSteps - 1) :
           events' = [Quiet(events) EXCEPT
                          !.reconnectDelay =
                              CalculateReconnectDelay(cfg.reconnectBaseDelay,
                                                      cfg.reconnectMaxDelay,
                                                      conn'.reconnectAttempts,
                                                      x)]
    /\ UNCHANGED <<now, sess, cfg, mgr, calls>>

SpecBackoff == InitBackoff /\ [][ScheduleRetry]_vars

(***************************************************************************)
(* SpecRegistry: the coordinator's registry under two concurrent callers   *)
(* that connect, create sessions and stop them; sessions negotiate and     *)
(* start.  The coordinator passes reconnect: true to its supervisor.       *)
(***************************************************************************)
InitRegistry ==
    /\ now = EpochStart
    /\ sess = [s \in SessionIds |-> NewSession(AUDIO_VIDEO, TRUE)]
    /\ \E attempts \in ManagerReconnectAttempts :
           cfg = NewConfig(TRUE, attempts, FALSE, DefaultMaxReconnectionTimeMs)
    /\ conn = NewConnector
    /\ mgr = NewManager
    /\ calls = [c \in Callers |-> IdleCall]
    /\ events = NoEvents

NextRegistry ==
    \/ \E c \in Callers : ManagerConnectCall(c)
    \/ \E c \in Callers : CreateSessionCall(c, TheSession)
    \/ \E c \in Callers : ManagerConnectReturn(c)
    \/ \E c \in Callers : TempDirReturn(c)
    \/ \E c \in Callers : PipelineReturn(c)
    \/ \E c \in Callers : StopSessionCall(c, TheSession)
    \/ \E c \in Callers : StopSessionReturn(c)
    \/ RetryFire
    \/ RetryReturn
    \/ \E id \in mgr.sessions :
           sess[id].state = READY /\ ProcessOffer(id) /\ sess'[id].outcome = "ok"
    \/ \E id \in mgr.sessions :
           sess[id].state = READY /\ Start(id)

SpecRegistry == InitRegistry /\ [][NextRegistry]_vars

(***************************************************************************)
(* SpecOutage: one caller connects, creates sessions and disconnects a     *)
(* coordinator configured to preserve pipelines, with and without a        *)
(* reconnection window; the supervisor's retry timer and the release       *)
(* timers fire at any time.                                                *)
(***************************************************************************)
TheCaller == "c1"

InitOutage ==
    /\ now = EpochStart
    /\ sess = [s \in SessionIds |-> NewSession(AUDIO_VIDEO, TRUE)]
    /\ \E attempts \in ManagerReconnectAttempts,
          maxMs \in {0, DefaultMaxReconnectionTimeMs} :
           cfg = NewConfig(TRUE, attempts, TRUE, maxMs)
    /\ conn = NewConnector
    /\ mgr = NewManager
    /\ calls = [c \in Callers |-> IdleCall]
    /\ events = NoEvents

NextOutage ==
    \/ ManagerConnectCall(TheCaller)
    \/ \E id \in SessionIds : CreateSessionCall(TheCaller, id)
    \/ ManagerConnectReturn(TheCaller)
    \/ TempDirReturn(TheCaller)
    \/ PipelineReturn(TheCaller)
    \/ ManagerDisconnectCall(TheCaller, FALSE)
    \/ ManagerDisconnectReturn(TheCaller)
    \/ RetryFire
    \/ RetryReturn
    \/ \E id \in SessionIds, stray \in BOOLEAN : ReleaseTimerFire(id, stray)
    \/ \E id \in SessionIds : ReleaseTimerReturn(id)

SpecOutage == InitOutage /\ [][NextOutage]_vars

(***************************************************************************)
(* SpecShutdown: one caller creates sessions, which negotiate and start,   *)
(* and disconnects the coordinator with and without the releasePipelines   *)
(* flag, with preservation enabled or disabled.  No timer fires.           *)
(***************************************************************************)
InitShutdown ==
    /\ now = EpochStart
    /\ sess = [s \in SessionIds |-> NewSession(AUDIO_VIDEO, TRUE)]
    /\ \E preserve \in BOOLEAN :
           cfg = NewConfig(TRUE, DefaultReconnectAttempts, preserve,
                           DefaultMaxReconnectionTimeMs)
    /\ conn = NewConnector
    /\ mgr = NewManager
    /\ calls = [c \in Callers |-> IdleCall]
    /\ events = NoEvents

NextShutdown ==
    \/ \E id \in SessionIds : CreateSessionCall(TheCaller, id)
    \/ ManagerConnectReturn(TheCaller)
    \/ TempDirReturn(TheCaller)
    \/ PipelineReturn(TheCaller)
    \/ \E id \in mgr.sessions :
           sess[id].state = READY /\ ProcessOffer(id) /\ sess'[id].outcome = "ok"
    \/ \E id \in mgr.sessions :
           sess[id].state = READY /\ Start(id)
    \/ \E releasePipelines \in BOOLEAN :
           ManagerDisconnectCall(TheCaller, releasePipelines)
    \/ \E id \in SessionIds : StopAllReturn(TheCaller, id)
    \/ ManagerDisconnectReturn(TheCaller)

SpecShutdown == InitShutdown /\ [][NextShutdown]_vars

(***************************************************************************)
(* SpecPair: two sessions of one connected coordinator.  Session a has     *)
(* been created and is driven by every lifecycle call its state accepts    *)
(* and released once it has stopped or failed; session b is created,       *)
(* negotiated, started and created again; either is stopped through the    *)
(* coordinator, in any interleaving.                                       *)
(***************************************************************************)
InitPair ==
    /\ now = EpochStart
    /\ sess = [s \in SessionIds |->
                  IF s = TheSession
                  THEN Done(InitializeRec(NewSession(AUDIO_VIDEO, FALSE)),
                            "initialize", "ok")
                  ELSE NewSession(AUDIO_VIDEO, TRUE)]
    /\ cfg = NewConfig(TRUE, DefaultReconnectAttempts, FALSE,
                       DefaultMaxReconnectionTimeMs)
    /\ conn = [NewConnector EXCEPT !.client = TRUE]
    /\ mgr = [NewManager EXCEPT !.kurentoConnector = TRUE,
                                !.isInitialized = TRUE,
                                !.sessions = {TheSession}]
    /\ calls = [c \in Callers |-> IdleCall]
    /\ events = NoEvents

SpecPair ==
    InitPair /\
    [][\/ \E id \in SessionIds \ {TheSession} :
             CreateSessionCall(TheCaller, id)
       \/ PipelineReturn(TheCaller)
       \/ \E id \in SessionIds : StopSessionCall(TheCaller, id)
       \/ StopSessionReturn(TheCaller)
       \/ \E id \in mgr.sessions :
             \/ /\ sess[id].state = READY
                /\ ProcessOffer(id) /\ sess'[id].outcome = "ok"
             \/ sess[id].state = READY /\ Start(id)
       \/ /\ TheSession \in mgr.sessions
          /\ \/ sess[TheSession].state = RECORDING /\ Pause(TheSession)
             \/ sess[TheSession].state = PAUSED /\ Resume(TheSession)
             \/ /\ sess[TheSession].state \in {RECORDING, PAUSED}
                /\ Stop(TheSession)
             \/ /\ sess[TheSession].state \in {RECORDING, PAUSED}
                /\ SetQuality(TheSession)
             \/ /\ sess[TheSession].state \in {STOPPED, ERROR}
                /\ Release(TheSession)]_vars

(***************************************************************************)
(* SpecCancel: one caller creates one session, which negotiates and        *)
(* starts, disconnects a coordinator that preserves pipelines, and stops   *)
(* the session; the release timers fire at any time.                       *)
(***************************************************************************)
InitCancel ==
    /\ now = EpochStart
    /\ sess = [s \in SessionIds |-> NewSession(AUDIO_VIDEO, TRUE)]
    /\ cfg = NewConfig(TRUE, DefaultReconnectAttempts, TRUE,
                       DefaultMaxReconnectionTimeMs)
    /\ conn = NewConnector
    /\ mgr = NewManager
    /\ calls = [c \in Callers |-> IdleCall]
    /\ events = NoEvents

NextCancel ==
    \/ CreateSessionCall(TheCaller, TheSession)
    \/ ManagerConnectReturn(TheCaller)
    \/ TempDirReturn(TheCaller)
    \/ PipelineReturn(TheCaller)
    \/ /\ TheSession \in mgr.sessions /\ sess[TheSession].state = READY
       /\ ProcessOffer(TheSession) /\ sess'[TheSession].outcome = "ok"
    \/ /\ TheSession \in mgr.sessions /\ sess[TheSession].state = READY
       /\ Start(TheSession)
    \/ StopSessionCall(TheCaller, TheSession)
    \/ StopSessionReturn(TheCaller)
    \/ ManagerDisconnectCall(TheCaller, FALSE)
    \/ ManagerDisconnectReturn(TheCaller)
    \/ \E stray \in BOOLEAN : ReleaseTimerFire(TheSession, stray)
    \/ ReleaseTimerReturn(TheSession)

SpecCancel == InitCancel /\ [][NextCancel]_vars

(***************************************************************************)
(* The session state machine.                                              *)
(***************************************************************************)
\* The lifecycle graph: CREATED -> READY -> RECORDING <-> PAUSED -> STOPPED,
\* ERROR from any state, STOPPED from ERROR.
LifecycleGraph ==
    {<<CREATED, READY>>, <<READY, RECORDING>>, <<RECORDING, PAUSED>>,
     <<PAUSED, RECORDING>>, <<RECORDING, STOPPED>>, <<PAUSED, STOPPED>>,
     <<ERROR, STOPPED>>}
    \cup {<<st, ERROR>> : st \in RecordingStates}

\* C1: under any sequence of public calls and any outcome of the server
\* calls, every change of the session's lifecycle state is an edge of the
\* lifecycle graph (so READY is entered only from CREATED).
C1_StateFollowsGraph ==
    [][sess'[TheSession].state # sess[TheSession].state
         => <<sess[TheSession].state, sess'[TheSession].state>>
                \in LifecycleGraph]_vars

\* A step that is a resume() call accepted by the state guard.
ResumeCompleted ==
    /\ sess[TheSession].state = PAUSED
    /\ sess'[TheSession] # sess[TheSession]
    /\ sess'[TheSession].lastOp = "resume"
    /\ sess'[TheSession].outcome = "ok"

\* C2: after resume completes the session is RECORDING if and only if
\* neither audio nor video remains muted; resuming both ends in RECORDING;
\* resume(video) after pause(both) ends in PAUSED with audio muted and video
\* unmuted; resume() without argument unmutes exactly the kinds of the
\* preceding pause.
C2_ResumeState ==
    [][ResumeCompleted =>
         LET r == sess[TheSession]
             q == sess'[TheSession]
             actual == IF q.lastArg = Null THEN r.pauseType ELSE q.lastArg
         IN  /\ q.state \in {RECORDING, PAUSED}
             /\ q.state = RECORDING <=> (~q.isAudioPaused /\ ~q.isVideoPaused)
             /\ actual = BOTH => q.state = RECORDING
             /\ (r.pauseType = BOTH /\ r.isAudioPaused /\ r.isVideoPaused
                 /\ q.lastArg = VIDEO_ONLY)
                  => (q.state = PAUSED /\ q.isAudioPaused /\ ~q.isVideoPaused)
             /\ q.lastArg = Null =>
                  /\ q.isAudioPaused =
                       (r.isAudioPaused /\ r.pauseType \notin {BOTH, AUDIO_ONLY})
                  /\ q.isVideoPaused =
                       (r.isVideoPaused /\ r.pauseType \notin {BOTH, VIDEO_ONLY})
       ]_vars

\* A partial resume happened: pause(both), then resume(video), left the
\* session PAUSED with audio muted.
C2_Witness ==
    /\ sess[TheSession].lastOp = "resume"
    /\ sess[TheSession].lastArg = VIDEO_ONLY
    /\ sess[TheSession].pauseType = BOTH
    /\ sess[TheSession].state = PAUSED
    /\ sess[TheSession].isAudioPaused
    /\ ~sess[TheSession].isVideoPaused

\* C3: the duration in the result stop returns for a started session is
\* non-negative and at most the elapsed time stopTime - startTime, in
\* rounded seconds.
C3_DurationWithinElapsed ==
    LET r == sess[TheSession] IN
    (r.lastOp = "stop" /\ r.outcome = "ok" /\ r.startTime > 0)
        => /\ r.resultDuration >= 0
           /\ r.resultDuration
                <= MathRoundDiv(r.stopTime - r.startTime, MsPerSecond)

\* C4: in every state of a started session the accumulated paused time is at
\* most the time elapsed since startTime.
C4_PausedWithinElapsed ==
    LET r == sess[TheSession] IN
    r.startTime > 0 => r.totalPausedTime <= now - r.startTime

(***************************************************************************)
(* The coordinator's registry.                                             *)
(***************************************************************************)
\* C5: a createSession whose id is registered, or is being created by
\* another createSession in flight, is rejected before a pipeline is
\* created: no two calls create a pipeline for one id at a time, none
\* creates one for a registered id, and no registered session is replaced.
C5_DuplicateRejected ==
    /\ ~events.overwritten
    /\ \A c1, c2 \in Callers :
          (c1 # c2 /\ calls[c1].pc = "awaitPipeline"
                   /\ calls[c2].pc = "awaitPipeline")
              => calls[c1].arg # calls[c2].arg
    /\ \A c \in Callers :
          calls[c].pc = "awaitPipeline" => calls[c].arg \notin mgr.sessions

(***************************************************************************)
(* Preserving disconnect and the release timers.                           *)
(***************************************************************************)
\* C6: a disconnect() of a coordinator that preserves pipelines and has
\* n >= 1 sessions stops and removes no session, records the disconnection
\* timestamp, emits pipeline-preserved with sessionCount n and, when
\* maxReconnectionTimeMs > 0, arms exactly one release timer for each
\* registered session (and none for any other id); its completion after
\* close() removes no session either.
C6_PreservingDisconnect ==
    [][/\ (/\ ManagerDisconnectCall(TheCaller, FALSE)
           /\ cfg.preservePipelinesOnDisconnect
           /\ mgr.sessions # {})
          => /\ sess' = sess
             /\ mgr'.sessions = mgr.sessions
             /\ mgr'.disconnectionTimestamp = now
             /\ mgr'.disconnectionTimestamp # NoTimestamp
             /\ events'.preserved = Cardinality(mgr.sessions)
             /\ cfg.maxReconnectionTimeMs > 0 =>
                   \A id \in SessionIds :
                       /\ mgr'.strayTimers[id] = mgr.strayTimers[id]
                       /\ mgr'.pipelineReleaseTimers[id] =
                              IF id \in mgr.sessions THEN "pending"
                              ELSE mgr.pipelineReleaseTimers[id]
       /\ (/\ ManagerDisconnectReturn(TheCaller)
           /\ calls[TheCaller].arg = "preserve")
          => /\ sess' = sess
             /\ mgr'.sessions = mgr.sessions
      ]_vars

\* A preserving disconnect of two sessions has armed a timer for each.
C6_Witness ==
    /\ calls[TheCaller].op = "mgrDisconnect"
    /\ calls[TheCaller].arg = "preserve"
    /\ mgr.sessions = SessionIds
    /\ events.preserved = 2
    /\ mgr.disconnectionTimestamp # NoTimestamp
    /\ \A id \in SessionIds : mgr.pipelineReleaseTimers[id] = "pending"

\* C7: when the callback of a session's release timer is through, whatever
\* the outcome of the release calls, the session is out of the registry,
\* its timer entry is removed and one reconnection-timed-out has been
\* emitted for it.
C7_TimedOutSessionRemoved ==
    [][\A id \in SessionIds :
          mgr'.releasing[id] < mgr.releasing[id]
              => /\ id \notin mgr'.sessions
                 /\ mgr'.pipelineReleaseTimers[id] = "none"
                 /\ id \in events'.timedOut
      ]_vars

\* C8: whenever the connection is re-established before any release timer
\* of the outage has fired, by a call of the coordinator or by the
\* supervisor's own retry, the pending release timers and the
\* disconnection timestamp are cleared.
C8_ReconnectClearsTimers ==
    [][(/\ ~conn.client
        /\ conn'.client
        /\ \A id \in SessionIds :
               /\ mgr.pipelineReleaseTimers[id] # "fired"
               /\ mgr.releasing[id] = 0
               /\ mgr.strayTimers[id] = 0)
          => /\ mgr'.disconnectionTimestamp = NoTimestamp
             /\ \A id \in SessionIds :
                    mgr'.pipelineReleaseTimers[id] # "pending"
      ]_vars

(***************************************************************************)
(* The connection supervisor.                                              *)
(***************************************************************************)
\* C9: once reconnect_max_attempts has been emitted, and until a caller
\* invokes connect() again, no retry timer is pending, no automatic
\* connection attempt is in flight and the notification has been emitted
\* once only.
C9_NoRetryAfterMaxAttempts ==
    events.maxAttempts >= 1
        => /\ ~conn.reconnectTimer
           /\ conn.retry = "idle"
           /\ events.maxAttempts = 1

\* C10: connect() returns the connection it has without contacting the
\* server; while an attempt is in flight it fails with connection in
\* progress, starts no attempt and changes nothing in the supervisor; at
\* most one attempt is in flight and the supervisor is never both
\* connecting and connected.
C10_SingleAttempt ==
    /\ [](AttemptsInFlight <= 1 /\ ~(conn.client /\ conn.isConnecting))
    /\ [][\A c \in Callers :
             ConnectCall(c)
                 => /\ conn.client
                        => /\ calls'[c].outcome = "existing"
                           /\ calls'[c].pc = "idle"
                           /\ conn' = conn
                    /\ (~conn.client /\ AttemptsInFlight > 0)
                        => /\ calls'[c].outcome = "in_progress"
                           /\ calls'[c].pc = "idle"
                           /\ conn' = conn
          ]_vars

\* A caller's connect() was refused while another caller's attempt is in
\* flight.
C10_Witness ==
    \E c1, c2 \in Callers :
        /\ calls[c1].op = "connect"
        /\ calls[c1].outcome = "in_progress"
        /\ calls[c2].pc = "awaitSingleton"

\* C11: a disconnect() of the supervisor, called in any state and whether
\* or not close() fails, completes successfully, emits 'disconnected' and
\* leaves the supervisor not connected with no retry timer pending.
C11_DisconnectAlwaysSucceeds ==
    [][\A c \in Callers :
          (\/ DisconnectCall(c) /\ ~conn.client
           \/ DisconnectReturn(c))
              => /\ calls'[c].outcome = "ok"
                 /\ events'.disconnected
                 /\ ~conn'.client
                 /\ ~conn'.reconnectTimer
      ]_vars

(***************************************************************************)
(* The session's elements on the media server.                             *)
(***************************************************************************)
\* C12: whenever start() invokes the recorder's record(), also while a
\* processOffer() on the session awaits the server, the server has
\* completed the offer/answer negotiation of the ingress element.
C12_RecordAfterNegotiation ==
    [][\A c \in Callers :
          (StartCall(c, TheSession) /\ calls'[c].pc = "awaitRecord")
              => sess[TheSession].srv_negotiated
      ]_vars

\* C13: under any sequence of calls the session creates at most one
\* ingress element and at most one recording element on the server.
C13_OneEndpointPair ==
    /\ sess[TheSession].srv_webRtcCreated # "many"
    /\ sess[TheSession].srv_recorderCreated # "many"

\* C14: in every state the recording element's video input is fed by at
\* most one of the ingress element and the blank-screen substitute, also
\* when a disconnect or connect call failed during pause or resume; and once
\* the substitute is removed it is not connected.
C14_OneVideoSource ==
    /\ ~(sess[TheSession].srv_ingressVideo /\ sess[TheSession].srv_blankVideo)
    /\ sess[TheSession].srv_blankElements = 0
           => ~sess[TheSession].srv_blankVideo

\* A step that is the call op of the session: every call leaves its name in
\* the session's record of the last call.
Called(op) ==
    /\ sess'[TheSession] # sess[TheSession]
    /\ sess'[TheSession].lastOp = op

\* A step that is a lifecycle call made in a state where it is not valid.
InvalidStateCall ==
    LET st == sess[TheSession].state IN
    \/ Called("processOffer") /\ st # READY
    \/ Called("start") /\ st # READY
    \/ Called("pause") /\ st # RECORDING
    \/ Called("resume") /\ st # PAUSED
    \/ Called("stop") /\ st \in {CREATED, READY, STOPPED}
    \/ Called("setQuality") /\ st \notin {RECORDING, PAUSED}

\* C16: a lifecycle call made in a state where it is not valid fails with
\* an invalid-state error and changes nothing of the session: not its
\* lifecycle state, timestamps, paused time, mute flags or options, and
\* nothing on the server.
C16_InvalidCallRejected ==
    [][InvalidStateCall =>
         LET r == sess[TheSession]
             q == sess'[TheSession]
         IN  /\ q.outcome = "invalid_state"
             /\ q = [r EXCEPT !.lastOp = q.lastOp,
                              !.lastArg = q.lastArg,
                              !.outcome = q.outcome]
      ]_vars

\* setQuality was rejected on a session that had been stopped after its
\* quality options were changed.
C16_Witness ==
    /\ sess[TheSession].lastOp = "setQuality"
    /\ sess[TheSession].outcome = "invalid_state"
    /\ sess[TheSession].state = STOPPED
    /\ sess[TheSession].opt_bitrate = "custom"

C15_PipelineReleasedAtEnd ==
    [][\A id \in SessionIds :
          (id \in mgr.sessions /\ id \notin mgr'.sessions)
              => ~EnsurePipeline(sess'[id]) ]_vars

\* C18: with preservation enabled and a reconnection window of 0 no release
\* timer is ever armed, none of their callbacks runs and no session is
\* reported timed out.
C18_NoTimerWithoutWindow ==
    (cfg.preservePipelinesOnDisconnect /\ cfg.maxReconnectionTimeMs = 0)
        => /\ \A id \in SessionIds :
                  /\ mgr.pipelineReleaseTimers[id] = "none"
                  /\ mgr.strayTimers[id] = 0
                  /\ mgr.releasing[id] = 0
           /\ events.timedOut = {}

\* The release timers of `id` that are armed: the one the coordinator's map
\* holds and the ones it no longer holds.
ArmedTimers(id) ==
    (IF mgr.pipelineReleaseTimers[id] = "pending" THEN 1 ELSE 0)
        + mgr.strayTimers[id]

\* C19: a disconnect() that does not preserve (preservation disabled, or
\* the releasePipelines flag given) attempts to stop every registered
\* session, leaves the connection alone while a stop is outstanding, and
\* once it has returned no release timer is armed.
C19_ShutdownStopsAll ==
    /\ [](\A c \in Callers :
             (/\ calls[c].op = "mgrDisconnect"
              /\ calls[c].arg = "release"
              /\ calls[c].pc = "idle")
                 => \A id \in SessionIds : ArmedTimers(id) = 0)
    /\ [][\A c \in Callers :
             /\ (calls[c].pc = "idle" /\ calls'[c].pc = "awaitStopAll")
                    => calls'[c].pending = mgr.sessions
             /\ calls'[c].pc = "awaitStopAll" => conn' = conn ]_vars

\* C20: a session id never has more than one armed release timer, and once
\* stopSession(id) was invoked on a registered session no timer callback
\* starts or completes a release of the session or reports it timed out.
C20_StopCancelsTimer ==
    /\ [](\A id \in SessionIds : ArmedTimers(id) <= 1)
    /\ [][\A c \in Callers, id \in SessionIds :
             (/\ calls[c].op = "stopSession"
              /\ calls[c].arg = id
              /\ calls[c].outcome # "not_found")
                 => /\ id \notin events'.timedOut
                    /\ mgr'.releasing[id] = mgr.releasing[id] ]_vars

\* C21: the supervisor's attempt counter never exceeds the configured
\* maximum, grows by exactly one with each failed attempt that schedules a
\* retry (and only then), and is zero after every successful connection.
C21_AttemptCounter ==
    /\ [](conn.reconnectAttempts <= cfg.reconnectAttempts)
    /\ [][/\ conn'.reconnectAttempts <= conn.reconnectAttempts + 1
          /\ conn'.reconnectAttempts > conn.reconnectAttempts
                 => conn'.reconnectTimer
          /\ (~conn.client /\ conn'.client)
                 => conn'.reconnectAttempts = 0 ]_vars

\* C22: every delay the supervisor schedules lies in [0, maxDelay], for
\* every attempt number and jitter; the backoff before jitter never
\* decreases from one attempt to the next and stays at maxDelay once it has
\* reached it.
C22_DelayWithinBounds ==
    LET base == cfg.reconnectBaseDelay
        max == cfg.reconnectMaxDelay
        Backoff(n) == ExponentialBackoff(base, max, n)
    IN  /\ events.reconnectDelay >= 0
        /\ events.reconnectDelay <= max
        /\ \A n \in 1..cfg.reconnectAttempts, x \in 0..(RandomSteps - 1) :
               /\ CalculateReconnectDelay(base, max, n, x) >= 0
               /\ CalculateReconnectDelay(base, max, n, x) <= max
               /\ Backoff(n) <= Backoff(n + 1)
               /\ Backoff(n) = max => Backoff(n + 1) = max

\* A third retry was scheduled with a backoff that the maximum clamped, and
\* its delay is below the maximum: the jitter took part.
C22_Witness ==
    /\ conn.reconnectAttempts = 3
    /\ conn.reconnectTimer
    /\ cfg.reconnectBaseDelay * 4 > cfg.reconnectMaxDelay
    /\ events.reconnectDelay > 0
    /\ events.reconnectDelay < cfg.reconnectMaxDelay

\* C23: one pipeline object creates at most one processing graph on the
\* server, whatever the order and overlap of initialize() and release(); an
\* initialize() on a created pipeline returns without a server call.
C23_OneGraph ==
    /\ [](sess[TheSession].srv_graphs # "many")
    /\ [][\A c \in Callers :
             (/\ PipelineInitializeCall(c)
              /\ sess[TheSession].pl_pipeline)
                 => calls'[c].pc = "idle" /\ calls'[c].outcome = "ok" ]_vars

\* TRUE when the pipeline is unavailable: never initialized, or released.
PipelineGone ==
    \/ sess[TheSession].srv_graphs = "none"
    \/ sess[TheSession].pl_isReleased

\* C24: once released the pipeline's registry is empty, a further release()
\* succeeds without a server call, and every create or connect operation
\* fails with pipeline-unavailable, as on a pipeline never initialized.
C24_ReleaseAbsorbing ==
    /\ [](sess[TheSession].pl_isReleased => sess[TheSession].pl_elements = 0)
    /\ [][\A c \in Callers :
             /\ (PipelineReleaseCall(c) /\ sess[TheSession].pl_isReleased)
                    => calls'[c].pc = "idle" /\ calls'[c].outcome = "ok"
             /\ (/\ calls[c].pc = "idle"
                 /\ calls'[c] # calls[c]
                 /\ calls'[c].op \notin {"pipeline.initialize",
                                         "pipeline.release"}
                 /\ PipelineGone)
                    => calls'[c].outcome = "pipeline_unavailable" ]_vars

\* C25: a processOffer, start, stop or setQuality call that fails on a
\* server call (its outcome is "failed": the failure is thrown to the
\* caller) leaves the session in state ERROR.
C25_FailureEntersError ==
    [][\A op \in {"processOffer", "start", "stop", "setQuality"} :
          (Called(op) /\ sess'[TheSession].outcome = "failed")
              => sess'[TheSession].state = ERROR ]_vars

\* C26: whatever the outcome of creating, connecting, disconnecting or
\* releasing the substitute, a pause() from RECORDING succeeds and ends
\* PAUSED, a resume() from PAUSED succeeds and ends in the state its mute
\* flags determine, and a stop() ends as it does when the substitute's calls
\* succeed, STOPPED when the recorder stops; addIceCandidate() succeeds when
\* forwarding the candidate fails.
C26_SubstituteFailuresSwallowed ==
    LET r == sess[TheSession] IN
    /\ r.state = RECORDING =>
          \A kind \in PauseTypes, okCreate, okDisconnect, okConnect \in BOOLEAN :
             LET q == PauseRec(r, kind, okCreate, okDisconnect, okConnect, now)
             IN  q.outcome = "ok" /\ q.state = PAUSED
    /\ r.state = PAUSED =>
          \A kind \in PauseTypes \cup {Null},
             okDisconnect, okConnect, okRelease \in BOOLEAN :
             LET q == ResumeRec(r, kind, okDisconnect, okConnect, okRelease,
                                now)
             IN  /\ q.outcome = "ok"
                 /\ q.state = IF q.isAudioPaused \/ q.isVideoPaused
                               THEN PAUSED ELSE RECORDING
    /\ r.state \in {RECORDING, PAUSED} =>
          \A okDisconnect, okConnect, okRelease, okStop \in BOOLEAN :
             LET q == StopRec(r, okDisconnect, okConnect, okRelease, okStop,
                              now)
                 p == StopRec(r, TRUE, TRUE, TRUE, okStop, now)
             IN  /\ q.outcome = p.outcome /\ q.state = p.state
                 /\ (okStop /\ r.em_recorderEndpoint) => q.state = STOPPED
    /\ AddIceCandidateRec(r, FALSE).outcome = "ok"

\* A pause of video succeeded although the substitute could not be created,
\* on a session that has forwarded a candidate to its ingress element.
C26_Witness ==
    /\ sess[TheSession].lastOp = "pause"
    /\ sess[TheSession].lastArg = VIDEO_ONLY
    /\ sess[TheSession].outcome = "ok"
    /\ sess[TheSession].state = PAUSED
    /\ ~sess[TheSession].blankScreenElement
    /\ sess[TheSession].srv_iceForwarded # <<>>

\* The candidates of `log` that were buffered, in the order of the log.
BufferedIn(log) ==
    LET buffered == {sess[TheSession].ice_buffered[i] :
                        i \in DOMAIN sess[TheSession].ice_buffered}
        IsBuffered(id) == id \in buffered
    IN  SelectSeq(log, IsBuffered)

C27_ReleaseBestEffort ==
    LET r == sess[TheSession] IN
    \A okBlank, okStop, okRecorder, okWebRtc, okPipeline \in BOOLEAN :
       LET q == ReleaseRec(r, okBlank, okStop, okRecorder, okWebRtc,
                           okPipeline)
       IN  /\ q.state = r.state
           /\ q.outcome = "failed" <=> (EnsurePipeline(r) /\ ~okPipeline)
           /\ (r.blankScreenElement /\ okBlank) => ~q.blankScreenElement
           /\ (r.endpointManager /\ okRecorder) => ~q.em_recorderEndpoint
           /\ (r.endpointManager /\ okWebRtc) => ~q.em_webRtcEndpoint
           /\ okPipeline => ~EnsurePipeline(q)

\* release() succeeded on a paused session: the recorder's release failed,
\* the ingress element and the pipeline were released all the same.
C27_Witness ==
    /\ sess[TheSession].lastOp = "release"
    /\ sess[TheSession].outcome = "ok"
    /\ sess[TheSession].state = PAUSED
    /\ sess[TheSession].em_recorderEndpoint
    /\ ~sess[TheSession].em_webRtcEndpoint
    /\ sess[TheSession].pl_isReleased

\* C29: every createEndpoints that created both elements issued exactly one
\* connection from the ingress element to the recorder, of both tracks in
\* audio-video mode, of audio in audio-only mode, of video in video-only mode
\* and of both tracks, with a warning logged, for any other mode.
C29_OneConnectionByMode ==
    LET r == sess[TheSession]
        n == Len(r.srv_connections)
    IN  /\ n = 0 <=> r.srv_recorderCreated = "none"
        /\ n = 1 <=> r.srv_recorderCreated = "one"
        /\ \A i \in 1..n :
              r.srv_connections[i] =
                  CASE r.recordingMode = AUDIO_VIDEO -> {"AUDIO", "VIDEO"}
                    [] r.recordingMode = MODE_AUDIO_ONLY -> {"AUDIO"}
                    [] r.recordingMode = MODE_VIDEO_ONLY -> {"VIDEO"}
                    [] OTHER -> {"AUDIO", "VIDEO"}
        /\ r.em_warned <=> (n > 0 /\ r.recordingMode \notin RecordingModes)

\* createEndpoints succeeded with a mode it does not recognize: one
\* connection of both tracks was made and the warning logged.
C29_Witness ==
    /\ sess[TheSession].recordingMode = UnrecognizedMode
    /\ \E c \in Callers : /\ calls[c].op = "createEndpoints"
                          /\ calls[c].outcome = "ok"
    /\ sess[TheSession].srv_connections = << {"AUDIO", "VIDEO"} >>
    /\ sess[TheSession].em_warned

\* C30: record() is never invoked twice on a recorder without a successful
\* stop() in between; startRecording() while recording and stopRecording()
\* while not recording succeed and change nothing; both fail with
\* recorder-unavailable when there is no recorder; a failed record() or
\* stop() leaves the recording flag as it was.
C30_RecordOncePerStop ==
    /\ [](sess[TheSession].srv_records # "many")
    /\ [][\A c \in Callers :
            LET r == sess[TheSession]
                k == calls'[c]
                entered == /\ calls[c].pc = "idle" /\ calls'[c] # calls[c]
                           /\ k.op \in {"startRecording", "stopRecording"}
                atTarget == r.em_isRecording <=> k.op = "startRecording"
            IN  /\ (entered /\ ~r.em_recorderEndpoint)
                      => /\ k.outcome = "recorder_unavailable"
                         /\ sess' = sess
                /\ (entered /\ r.em_recorderEndpoint /\ atTarget)
                      => /\ k.pc = "idle" /\ k.outcome = "ok"
                         /\ sess' = sess
                /\ (calls[c].pc \in {"awaitRecord", "awaitStop"}
                       /\ k.outcome = "failed")
                      => sess'[TheSession].em_isRecording = r.em_isRecording
       ]_vars

\* C31: the duration in the result of a successful stop of a started
\* session is, in rounded seconds, the time from start to stop less the time
\* the session spent paused (a pause still open at the stop included) when
\* blank-screen substitution is disabled, and the whole time from start to
\* stop when it is enabled.
C31_DurationExcludesPauses ==
    LET r == sess[TheSession] IN
    (r.lastOp = "stop" /\ r.outcome = "ok" /\ r.startTime > 0)
        => r.resultDuration =
              IF r.insertBlankScreenOnPause
              THEN MathRoundDiv(r.stopTime - r.startTime, MsPerSecond)
              ELSE MathRoundDiv(r.stopTime - r.startTime - r.clk_pausedMs,
                                MsPerSecond)

\* C32: a setQuality that is given both bounds and succeeds leaves them as
\* the bounds getOptions() returns, and no step other than a successful
\* setQuality changes those: not a failed setQuality, not another call.
C32_BitratesReadBack ==
    [][LET r == sess[TheSession]
           q == sess'[TheSession]
           succeeded == /\ q.lastOp = "setQuality" /\ q.outcome = "ok"
                        /\ q # r
       IN  /\ (succeeded /\ q.lastArg[1] # <<>> /\ q.lastArg[2] # <<>>)
                 => /\ q.opt_minBitrate = q.lastArg[1][1]
                    /\ q.opt_maxBitrate = q.lastArg[2][1]
           /\ ~succeeded
                 => /\ q.opt_minBitrate = r.opt_minBitrate
                    /\ q.opt_maxBitrate = r.opt_maxBitrate]_vars

\* A paused session whose setQuality of 300 and 5000 succeeded and was
\* followed by a setQuality that failed: the options are 300 and 5000.
C32_Witness ==
    /\ sess[TheSession].state = PAUSED
    /\ sess[TheSession].lastOp = "setQuality"
    /\ sess[TheSession].outcome = "failed"
    /\ sess[TheSession].lastArg = << <<9000>>, <<>> >>
    /\ sess[TheSession].opt_minBitrate = 300
    /\ sess[TheSession].opt_maxBitrate = 5000
    /\ sess[TheSession].srv_minBandwidth = 300
    /\ sess[TheSession].srv_maxBandwidth = 5000

\* C33: the options createSession validated have 0 < minBitrate <=
\* maxBitrate; each bound is the one supplied when that is positive and the
\* preset's otherwise, the two exchanged when the minimum would be above the
\* maximum; with no bound supplied and the preset high (or none) they are
\* 1000 and 4000 with a frame rate of 30.
C33_NormalizedBitrates ==
    LET r == sess[TheSession]
        o == r.opt_supplied
        preset == QualitySettings(IF o.quality = <<>> THEN "high"
                                  ELSE o.quality[1])
        Positive(b) == b # <<>> /\ b[1] > 0
        min == IF Positive(o.minBitrate) THEN o.minBitrate[1]
               ELSE preset.minBitrate
        max == IF Positive(o.maxBitrate) THEN o.maxBitrate[1]
               ELSE preset.maxBitrate
    IN  r.lastOp = "createSession"
          => /\ 0 < r.opt_minBitrate
             /\ r.opt_minBitrate <= r.opt_maxBitrate
             /\ min <= max => /\ r.opt_minBitrate = min
                              /\ r.opt_maxBitrate = max
             /\ min > max => /\ r.opt_minBitrate = max
                             /\ r.opt_maxBitrate = min
             /\ (/\ o.quality \in {<<>>, <<"high">>}
                 /\ o.minBitrate = <<>> /\ o.maxBitrate = <<>>)
                  => /\ r.opt_minBitrate = 1000
                     /\ r.opt_maxBitrate = 4000
                     /\ r.opt_frameRateValue = 30

\* A session created with a negative minimum and a maximum of 300 under the
\* preset medium: the minimum defaulted to 500 and was exchanged with 300.
C33_Witness ==
    /\ sess[TheSession].lastOp = "createSession"
    /\ sess[TheSession].opt_supplied =
          [ quality |-> <<"medium">>, minBitrate |-> <<-1>>,
            maxBitrate |-> <<300>> ]
    /\ sess[TheSession].opt_minBitrate = 300
    /\ sess[TheSession].opt_maxBitrate = 500

\* C40: the options of a session always have 0 < minBitrate <= maxBitrate,
\* and while the session is recording or paused they are the bounds last
\* set on its ingress element.
C40_BitratesOrderedAndApplied ==
    LET r == sess[TheSession] IN
    /\ 0 < r.opt_minBitrate
    /\ r.opt_minBitrate <= r.opt_maxBitrate
    /\ r.state \in {RECORDING, PAUSED}
          => /\ r.srv_minBandwidth = r.opt_minBitrate
             /\ r.srv_maxBandwidth = r.opt_maxBitrate

\* C34: a lifecycle call on one session (a step that changes the session
\* and is no step of a coordinator call or of a timer) leaves every other
\* session, the registry and the rest of the coordinator as they were; the
\* registry changes only in a step of createSession or stopSession or of a
\* release timer's callback.
C34_SessionsIndependent ==
    [][/\ \A s \in SessionIds :
             (/\ calls' = calls /\ mgr'.releasing = mgr.releasing
              /\ sess'[s] # sess[s])
                 => /\ \A t \in SessionIds \ {s} : sess'[t] = sess[t]
                    /\ mgr' = mgr /\ conn' = conn /\ cfg' = cfg
       /\ mgr'.sessions # mgr.sessions
             => \/ \E c \in Callers :
                      /\ calls[c].op \in {"createSession", "stopSession"}
                      /\ calls'[c] # calls[c]
                \/ \E id \in SessionIds :
                      /\ mgr.releasing[id] > 0
                      /\ mgr'.releasing[id] < mgr.releasing[id]]_vars

\* Session a has just been paused while session b, registered too, goes on
\* recording.
C34_Witness ==
    /\ mgr.sessions = SessionIds
    /\ sess["a"].lastOp = "pause" /\ sess["a"].state = PAUSED
    /\ sess["b"].lastOp = "start" /\ sess["b"].state = RECORDING
    /\ sess["b"].startTime > 0

\* C35: once the state of a session is STOPPED it never changes again.
C35_StoppedTerminal ==
    [][sess[TheSession].state = STOPPED
          => sess'[TheSession].state = STOPPED]_vars

\* C36: in every state of a session, if the state is RECORDING neither
\* audio nor video is marked muted and no blank-screen substitute is held,
\* and if the state is PAUSED audio or video is marked muted.
C36_MuteFlagsFollowState ==
    LET r == sess[TheSession] IN
    /\ r.state = RECORDING
          => /\ ~r.isAudioPaused /\ ~r.isVideoPaused
             /\ ~r.blankScreenElement
    /\ r.state = PAUSED => (r.isAudioPaused \/ r.isVideoPaused)

\* C37: when the latest call of every caller that has called the supervisor
\* is a disconnect() that has returned, so that no connect() was invoked
\* after the disconnect, the supervisor is not connected and has no
\* reconnection timer pending.
C37_DisconnectIsFinal ==
    (/\ \E c \in Callers : calls[c].op = "disconnect"
     /\ \A c \in Callers : /\ calls[c].pc = "idle"
                           /\ calls[c].op \in {"disconnect", "none"})
        => /\ ~conn.client
           /\ ~conn.reconnectTimer

\* C38: with reconnection enabled, a maximum N >= 1 and every attempt
\* failing, once the retry sequence has ended exactly N retries were made
\* after the initial failed connect(); reconnect_max_attempts is eventually
\* emitted and eventually no retry timer is pending.
C38_RetriesTerminate ==
    /\ []((/\ conn.reconnectAttempts > 0
           /\ ~conn.reconnectTimer
           /\ conn.retry = "idle") => conn.retries = cfg.reconnectAttempts)
    /\ (conn.reconnectAttempts > 0) ~> (events.maxAttempts > 0)
    /\ <>[](~conn.reconnectTimer)

\* The retry sequence ends: reconnect_max_attempts is eventually emitted and
\* eventually no retry timer is pending and no retry is in flight.
RetriesEnd ==
    /\ (conn.reconnectAttempts > 0) ~> (events.maxAttempts > 0)
    /\ (conn.reconnectAttempts > 0)
           ~> [](~conn.reconnectTimer /\ conn.retry = "idle")

\* C39: a coordinator connect() whose attempt established the connection and
\* which returns has delivered exactly one CONNECTED notification to the
\* coordinator's listeners, and a coordinator disconnect() that closed the
\* connection of a connected coordinator has delivered exactly one
\* DISCONNECTED notification.
C39_NotifiedOnce ==
    [][\A c \in Callers :
          /\ (/\ calls[c].op = "mgrConnect"
               /\ calls[c].pc = "awaitTempDir"
               /\ calls'[c].outcome = "ok") => calls'[c].notified = 1
          /\ (/\ calls[c].op = "mgrDisconnect"
               /\ calls[c].pc = "awaitClose"
               /\ calls'[c].pc = "idle") => calls'[c].notified = 1]_vars

====
